---------------------------- MODULE Spec2Model ----------------------------
(***************************************************************************)
(* Verification model of the Origen MCP tool core:                         *)
(*   compose_interface    (packages/mcp/src/tools/get-tokens.ts 94-600)    *)
(*   validate_accessibility (packages/mcp/src/tools/get-tokens.ts 602-1060)*)
(*   get_layout_pattern   (unnamed/part_004)                               *)
(* JavaScript strings are TLA+ strings; Len, \o and SubSeq act on them.    *)
(* A JavaScript object is a record whose DOMAIN holds exactly the keys     *)
(* that are present; a props bag is a sequence of key/value entries in     *)
(* insertion order; a JavaScript value is tagged with its typeof.          *)
(***************************************************************************)
EXTENDS Integers, Sequences, FiniteSets, TLC

VARIABLES intentPatterns, patterns, pc, request, result, seen

vars == <<intentPatterns, patterns, pc, request, result, seen>>

\* a request names the tool (op) and carries its arguments (input); no request
\* is in progress while the server waits
NoCall == [op |-> "none"]

NoResult == [pending |-> TRUE]

(***************************************************************************)
(* Bounds of the model                                                     *)
(***************************************************************************)
MaxWords == 2

MaxComponents == 5

MaxNames == 3

(***************************************************************************)
(* JavaScript string primitives                                            *)
(***************************************************************************)
CharAt(s, i) == SubSeq(s, i, i)

\* String.prototype.includes
Includes(s, kw) ==
  \E i \in 1..(Len(s) - Len(kw) + 1) : SubSeq(s, i, i + Len(kw) - 1) = kw

StartsWith(s, p) == Len(p) <= Len(s) /\ SubSeq(s, 1, Len(p)) = p

UpperLetters == "ABCDEFGHIJKLMNOPQRSTUVWXYZ"

LowerLetters == "abcdefghijklmnopqrstuvwxyz"

IndexIn(table, c) ==
  IF \E i \in 1..Len(table) : CharAt(table, i) = c
    THEN CHOOSE i \in 1..Len(table) : CharAt(table, i) = c
    ELSE 0

\* the lower-case and upper-case image of every letter
LowerOf == [c \in {CharAt(UpperLetters, i) : i \in 1..26} |->
              CharAt(LowerLetters, IndexIn(UpperLetters, c))]

UpperOf == [c \in {CharAt(LowerLetters, i) : i \in 1..26} |->
              CharAt(UpperLetters, IndexIn(LowerLetters, c))]

LowerChar(c) == IF c \in DOMAIN LowerOf THEN LowerOf[c] ELSE c

UpperChar(c) == IF c \in DOMAIN UpperOf THEN UpperOf[c] ELSE c

\* String.prototype.toLowerCase
RECURSIVE ToLowerCase(_)
ToLowerCase(s) ==
  IF Len(s) = 0 THEN ""
  ELSE IF Len(s) = 1 THEN LowerChar(s)
  ELSE ToLowerCase(SubSeq(s, 1, Len(s) \div 2))
         \o ToLowerCase(SubSeq(s, Len(s) \div 2 + 1, Len(s)))

\* String.prototype.toUpperCase
RECURSIVE ToUpperCase(_)
ToUpperCase(s) ==
  IF Len(s) = 0 THEN ""
  ELSE IF Len(s) = 1 THEN UpperChar(s)
  ELSE ToUpperCase(SubSeq(s, 1, Len(s) \div 2))
         \o ToUpperCase(SubSeq(s, Len(s) \div 2 + 1, Len(s)))

WhiteSpace == {" ", "\t", "\n", "\r", "\f"}

RECURSIVE TrimStart(_)
TrimStart(s) ==
  IF Len(s) > 0 /\ CharAt(s, 1) \in WhiteSpace THEN TrimStart(SubSeq(s, 2, Len(s))) ELSE s

RECURSIVE TrimEnd(_)
TrimEnd(s) ==
  IF Len(s) > 0 /\ CharAt(s, Len(s)) \in WhiteSpace THEN TrimEnd(SubSeq(s, 1, Len(s) - 1)) ELSE s

\* String.prototype.trim
Trim(s) == TrimEnd(TrimStart(s))

\* UTF-16 code unit order of the printable ASCII characters 32 .. 95
AsciiLow == " !\"#$%&'()*+,-./0123456789:;<=>?@ABCDEFGHIJKLMNOPQRSTUVWXYZ[\\]^_"

\* UTF-16 code unit order of the printable ASCII characters 97 .. 126
AsciiHigh == "abcdefghijklmnopqrstuvwxyz{|}~"

CodeOf ==
  [c \in {CharAt(AsciiLow, i) : i \in 1..Len(AsciiLow)}
          \cup {CharAt(AsciiHigh, i) : i \in 1..Len(AsciiHigh)} |->
     IF IndexIn(AsciiLow, c) > 0 THEN 31 + IndexIn(AsciiLow, c) ELSE 96 + IndexIn(AsciiHigh, c)]

CharCode(c) == CodeOf[c]

\* s precedes t in the order of Array.prototype.sort without comparator
RECURSIVE StrLess(_, _)
StrLess(s, t) ==
  IF Len(t) = 0 THEN FALSE
  ELSE IF Len(s) = 0 THEN TRUE
  ELSE IF CharAt(s, 1) = CharAt(t, 1) THEN StrLess(SubSeq(s, 2, Len(s)), SubSeq(t, 2, Len(t)))
  ELSE CharCode(CharAt(s, 1)) < CharCode(CharAt(t, 1))

Digits == "0123456789"

RECURSIVE NatToString(_)
NatToString(n) ==
  IF n < 10 THEN CharAt(Digits, n + 1)
  ELSE NatToString(n \div 10) \o CharAt(Digits, (n % 10) + 1)

\* template-literal conversion of an integer number
NumToString(n) == IF n < 0 THEN "-" \o NatToString(0 - n) ELSE NatToString(n)

(***************************************************************************)
(* JavaScript values                                                       *)
(***************************************************************************)
Str(s) == [type |-> "string", val |-> s]

Bool(b) == [type |-> "boolean", val |-> b]

Num(n) == [type |-> "number", val |-> n]

\* ToBoolean of a tagged value
Truthy(v) ==
  CASE v.type = "string" -> Len(v.val) > 0
    [] v.type = "boolean" -> v.val
    [] v.type = "number" -> v.val # 0
    [] OTHER -> TRUE

Prop(k, v) == [k |-> k, v |-> v]

HasProp(props, key) == \E i \in 1..Len(props) : props[i].k = key

GetProp(props, key) == props[CHOOSE i \in 1..Len(props) : props[i].k = key].v

\* !props[key] where !!props[key] was meant
PropFalsy(props, key) == ~(HasProp(props, key) /\ Truthy(GetProp(props, key)))

\* !!props[key]
PropTruthy(props, key) == HasProp(props, key) /\ Truthy(GetProp(props, key))

Has(obj, key) == key \in DOMAIN obj

SeqToSet(s) == {s[i] : i \in 1..Len(s)}


\* own and inherited keys that (key in obj) and obj[key] find on a plain
\* object literal through Object.prototype
ObjectPrototypeKeys ==
  {"constructor", "toString", "valueOf", "hasOwnProperty", "isPrototypeOf",
   "propertyIsEnumerable", "toLocaleString", "__proto__"}

Range(f) == {f[x] : x \in DOMAIN f}

(***************************************************************************)
(* compose_interface: static intent patterns                               *)
(***************************************************************************)
Comp(name, props, slot) == [name |-> name, props |-> props, slot |-> slot]

CompC(name, props, slot, children) ==
  [name |-> name, props |-> props, slot |-> slot, children |-> Str(children)]

Unslotted(name, props, children) ==
  [name |-> name, props |-> props, children |-> Str(children)]

StackColumn4 == [type |-> "stack", direction |-> "column", gap |-> "4"]

InitialIntentPatterns == <<
  \* Authentication patterns
  [keywords |-> <<"login", "signin", "sign in", "log in">>,
   components |-> <<
     Comp("Card", <<>>, "wrapper"),
     Comp("CardHeader", <<>>, "header"),
     CompC("CardTitle", <<>>, "header", "Sign In"),
     Comp("CardContent", <<>>, "content"),
     Comp("Input", <<Prop("type", Str("email")), Prop("placeholder", Str("Email"))>>, "content"),
     Comp("Input", <<Prop("type", Str("password")), Prop("placeholder", Str("Password"))>>, "content"),
     Comp("CardFooter", <<>>, "footer"),
     CompC("Button", <<Prop("variant", Str("default"))>>, "footer", "Sign In") >>,
   layout |-> StackColumn4],
  \* User profile patterns
  [keywords |-> <<"profile", "user card", "user profile", "account">>,
   components |-> <<
     Comp("Card", <<>>, "wrapper"),
     Comp("CardHeader", <<>>, "header"),
     CompC("CardTitle", <<>>, "header", "User Profile"),
     CompC("CardDescription", <<>>, "header", "Manage your account"),
     Comp("CardContent", <<>>, "content"),
     CompC("Button", <<Prop("variant", Str("secondary"))>>, "content", "Edit Profile") >>,
   layout |-> StackColumn4],
  \* Form patterns
  [keywords |-> <<"form", "input form", "data entry">>,
   components |-> <<
     Comp("Card", <<>>, "wrapper"),
     Comp("CardHeader", <<>>, "header"),
     CompC("CardTitle", <<>>, "header", "Form"),
     Comp("CardContent", <<>>, "content"),
     Comp("CardFooter", <<>>, "footer"),
     CompC("Button", <<Prop("variant", Str("default"))>>, "footer", "Submit") >>,
   layout |-> StackColumn4],
  \* Navigation patterns
  [keywords |-> <<"navigation", "header", "navbar", "nav">>,
   components |-> <<
     Unslotted("Button", <<Prop("variant", Str("ghost"))>>, "Home"),
     Unslotted("Button", <<Prop("variant", Str("ghost"))>>, "About"),
     Unslotted("Button", <<Prop("variant", Str("ghost"))>>, "Contact") >>,
   layout |-> [type |-> "flex", direction |-> "row", gap |-> "2"]],
  \* Settings patterns
  [keywords |-> <<"settings", "preferences", "options">>,
   components |-> <<
     Comp("Card", <<>>, "wrapper"),
     Comp("CardHeader", <<>>, "header"),
     CompC("CardTitle", <<>>, "header", "Settings"),
     Comp("CardContent", <<>>, "content"),
     Comp("Select", <<Prop("placeholder", Str("Choose option"))>>, "content"),
     Comp("CardFooter", <<>>, "footer"),
     CompC("Button", <<Prop("variant", Str("default"))>>, "footer", "Save") >>,
   layout |-> StackColumn4],
  \* Modal/dialog patterns
  [keywords |-> <<"modal", "dialog", "popup", "confirm">>,
   components |-> <<
     Comp("Modal", <<>>, "wrapper"),
     CompC("Button", <<>>, "trigger", "Open") >>,
   layout |-> StackColumn4] >>

(***************************************************************************)
(* compose_interface: helper functions                                     *)
(***************************************************************************)
\* pattern.keywords.filter((kw) => normalized.includes(kw)).length
KeywordScore(pattern, normalized) ==
  Len(SelectSeq(pattern.keywords, LAMBDA kw : Includes(normalized, kw)))

\* a sort that is not stable: x goes in front of the elements of equal score
InsertByScoreUnstable(sorted, x) ==
  LET keep == {i \in 1..Len(sorted) : sorted[i].score > x.score}
      n == IF keep = {} THEN 0 ELSE CHOOSE i \in keep : \A j \in keep : j <= i
  IN SubSeq(sorted, 1, n) \o <<x>> \o SubSeq(sorted, n + 1, Len(sorted))

\* Array.prototype.sort((a, b) => b.score - a.score): stable, descending.
\* Insert x behind every element whose score is not lower.
InsertByScore(sorted, x) ==
  LET keep == {i \in 1..Len(sorted) : sorted[i].score >= x.score}
      n == IF keep = {} THEN 0 ELSE CHOOSE i \in keep : \A j \in keep : j <= i
  IN SubSeq(sorted, 1, n) \o <<x>> \o SubSeq(sorted, n + 1, Len(sorted))

RECURSIVE SortByScoreFrom(_, _, _)
SortByScoreFrom(scored, i, acc) ==
  IF i > Len(scored) THEN acc
  ELSE SortByScoreFrom(scored, i + 1, InsertByScore(acc, scored[i]))

SortByScore(scored) == SortByScoreFrom(scored, 1, <<>>)

Null == [isNull |-> TRUE]

\* matchIntent over a given table: the index of the returned pattern, 0 for null
MatchIndex(table, intent) ==
  LET normalized == ToLowerCase(intent)
      scored == [i \in 1..Len(table) |->
                   [pattern |-> i, score |-> KeywordScore(table[i], normalized)]]
      sorted == SortByScore(scored)
  IN IF Len(sorted) > 0 /\ sorted[1].score > 0 THEN sorted[1].pattern ELSE 0

matchIntent(table, intent) ==
  IF MatchIndex(table, intent) = 0 THEN Null ELSE table[MatchIndex(table, intent)]


\* the six checks of extractFormFields, in declaration order; a /word/i test
\* is a substring test on the lower-cased intent
fieldPatterns == <<
  [pattern |-> {"email"}, field |-> "email"],
  [pattern |-> {"password"}, field |-> "password"],
  [pattern |-> {"name"}, field |-> "text"],
  [pattern |-> {"phone"}, field |-> "tel"],
  [pattern |-> {"message", "comment"}, field |-> "textarea"],
  [pattern |-> {"date"}, field |-> "date"] >>

RegexTest(alternatives, intent) ==
  LET lower == ToLowerCase(intent) IN \E w \in alternatives : Includes(lower, w)

RECURSIVE FieldsFrom(_, _)
FieldsFrom(i, intent) ==
  IF i > Len(fieldPatterns) THEN <<>>
  ELSE (IF RegexTest(fieldPatterns[i].pattern, intent)
          THEN <<fieldPatterns[i].field>> ELSE <<>>) \o FieldsFrom(i + 1, intent)

\* extractFormFields that stops at the first check that succeeds
extractFormFieldsFirstOnly(intent) ==
  IF FieldsFrom(1, intent) = <<>> THEN <<>> ELSE <<FieldsFrom(1, intent)[1]>>

extractFormFields(intent) == FieldsFrom(1, intent)

\* keys of the slotted object literal
SlottedKeys == {"wrapper", "header", "content", "footer", "trigger", "unslotted"}

\* comp.slot && comp.slot in slotted
SlotInSlotted(comp) ==
  Has(comp, "slot") /\ comp.slot # "" /\ comp.slot \in (SlottedKeys \cup ObjectPrototypeKeys)

Bucket(components, key) ==
  SelectSeq(components, LAMBDA c :
    IF SlotInSlotted(c) THEN c.slot = key ELSE key = "unslotted")

\* groupBySlot; slotted[comp.slot].push throws a TypeError when comp.slot
\* names a property inherited from Object.prototype
groupBySlot(components) ==
  [threw |-> \E i \in 1..Len(components) :
               SlotInSlotted(components[i]) /\ components[i].slot \in ObjectPrototypeKeys,
   wrapper |-> Bucket(components, "wrapper"),
   header |-> Bucket(components, "header"),
   content |-> Bucket(components, "content"),
   footer |-> Bucket(components, "footer"),
   trigger |-> Bucket(components, "trigger"),
   unslotted |-> Bucket(components, "unslotted")]

RECURSIVE Join(_, _)
Join(parts, sep) ==
  IF Len(parts) = 0 THEN ""
  ELSE IF Len(parts) = 1 THEN parts[1]
  ELSE parts[1] \o sep \o Join(Tail(parts), sep)

\* index of the first occurrence of the character c at or after from, 0 if none
RECURSIVE FirstIndexOf(_, _, _)
FirstIndexOf(s, c, from) ==
  IF from > Len(s) THEN 0
  ELSE IF CharAt(s, from) = c THEN from
  ELSE FirstIndexOf(s, c, from + 1)

RECURSIVE SplitFrom(_, _, _)
SplitFrom(s, sep, start) ==
  LET at == FirstIndexOf(s, sep, start)
  IN IF at = 0 THEN <<SubSeq(s, start, Len(s))>>
     ELSE <<SubSeq(s, start, at - 1)>> \o SplitFrom(s, sep, at + 1)

\* String.prototype.split with a one-character separator
Split(s, sep) == SplitFrom(s, sep, 1)

\* one entry of Object.entries(comp.props) as rendered by renderComponent
RenderProp(p) ==
  CASE p.v.type = "string" -> p.k \o "=\"" \o p.v.val \o "\""
    [] p.v.type = "boolean" -> (IF p.v.val THEN p.k ELSE p.k \o "={false}")
    [] p.v.type = "number" -> p.k \o "={" \o NumToString(p.v.val) \o "}"

renderComponent(comp) ==
  LET propsStr == Join([i \in 1..Len(comp.props) |-> RenderProp(comp.props[i])], " ")
      open == "<" \o comp.name \o (IF propsStr # "" THEN " " \o propsStr ELSE "")
  IN IF Has(comp, "children") /\ Truthy(comp.children)
       THEN open \o ">" \o comp.children.val \o "</" \o comp.name \o ">"
       ELSE open \o " />"

\* the for loop of one Card section: every member but the structural placeholder
RECURSIVE RenderMembers(_, _, _)
RenderMembers(members, skip, prefix) ==
  IF Len(members) = 0 THEN ""
  ELSE (IF members[1].name # skip
          THEN prefix \o renderComponent(members[1]) \o "\n" ELSE "")
       \o RenderMembers(Tail(members), skip, prefix)

\* a Card skeleton whose footer loop iterates the content bucket
generateCardStructureWrongBucket(slotted, indent) ==
  "<Card>\n"
  \o (IF Len(slotted.header) > 0
        THEN indent \o "<CardHeader>\n"
             \o RenderMembers(slotted.header, "CardHeader", indent \o indent)
             \o indent \o "</CardHeader>\n"
        ELSE "")
  \o (IF Len(slotted.content) > 0
        THEN indent \o "<CardContent className=\"flex flex-col gap-4\">\n"
             \o RenderMembers(slotted.content, "CardContent", indent \o indent)
             \o indent \o "</CardContent>\n"
        ELSE "")
  \o (IF Len(slotted.footer) > 0
        THEN indent \o "<CardFooter>\n"
             \o RenderMembers(slotted.content, "CardFooter", indent \o indent)
             \o indent \o "</CardFooter>\n"
        ELSE "")
  \o "</Card>"

generateCardStructure(slotted, indent) ==
  "<Card>\n"
  \o (IF Len(slotted.header) > 0
        THEN indent \o "<CardHeader>\n"
             \o RenderMembers(slotted.header, "CardHeader", indent \o indent)
             \o indent \o "</CardHeader>\n"
        ELSE "")
  \o (IF Len(slotted.content) > 0
        THEN indent \o "<CardContent className=\"flex flex-col gap-4\">\n"
             \o RenderMembers(slotted.content, "CardContent", indent \o indent)
             \o indent \o "</CardContent>\n"
        ELSE "")
  \o (IF Len(slotted.footer) > 0
        THEN indent \o "<CardFooter>\n"
             \o RenderMembers(slotted.footer, "CardFooter", indent \o indent)
             \o indent \o "</CardFooter>\n"
        ELSE "")
  \o "</Card>"

generateFlatLayout(components, layout, indent) ==
  LET dirClass == IF Has(layout, "direction") /\ layout.direction = "row"
                    THEN "flex-row" ELSE "flex-col"
      gapClass == IF Has(layout, "gap") /\ layout.gap # "" THEN "gap-" \o layout.gap ELSE ""
      layoutClass == IF layout.type = "flex" THEN "flex " \o dirClass \o " " \o gapClass ELSE ""
  IN "<div className=\"" \o Trim(layoutClass) \o "\">\n"
     \o RenderMembers(components, "", indent)
     \o "</div>"

\* generateCode; threw records the TypeError groupBySlot can raise
generateCode(layout, components, context) ==
  LET indent == "  "
      slotted == groupBySlot(components)
      pageOpen == IF context = "page"
                    THEN "<div className=\"min-h-screen bg-background p-8\">\n" \o indent ELSE ""
      hasCard == \E i \in 1..Len(slotted.wrapper) : slotted.wrapper[i].name = "Card"
      hasModal == \E i \in 1..Len(slotted.wrapper) : slotted.wrapper[i].name = "Modal"
      cardCode == generateCardStructure(slotted, indent)
      modalCode ==
        "<Modal>\n"
        \o (IF Len(slotted.trigger) > 0
              THEN indent \o "<Modal.Trigger>\n"
                   \o RenderMembers(slotted.trigger, "Modal", indent \o indent)
                   \o indent \o "</Modal.Trigger>\n"
              ELSE "")
        \o indent \o "<Modal.Content title=\"Modal\">\n"
        \o indent \o indent \o "{/* Content here */}\n"
        \o indent \o "</Modal.Content>\n"
        \o "</Modal>"
      flatCode == generateFlatLayout(
                    slotted.unslotted
                      \o SelectSeq(components, LAMBDA c : ~(Has(c, "slot") /\ c.slot # "")),
                    layout, indent)
      body == IF hasCard
                THEN (IF context = "page" THEN Join(Split(cardCode, "\n"), "\n" \o indent)
                      ELSE cardCode)
              ELSE IF hasModal THEN modalCode
              ELSE (IF context = "page" THEN Join(Split(flatCode, "\n"), "\n" \o indent)
                    ELSE flatCode)
      pageClose == IF context = "page" THEN "\n</div>" ELSE ""
  IN IF slotted.threw THEN [threw |-> TRUE, error |-> "TypeError"]
     ELSE [threw |-> FALSE, value |-> pageOpen \o body \o pageClose]


\* own keys of the tokenMap object literal of collectTokens
tokenMap == [
  Button |-> <<"primary", "primary-foreground", "secondary", "destructive">>,
  Input |-> <<"background", "border", "input", "ring", "foreground">>,
  Card |-> <<"card", "card-foreground", "border">>,
  CardHeader |-> <<"card">>,
  CardTitle |-> <<"card-foreground">>,
  CardDescription |-> <<"muted-foreground">>,
  CardContent |-> <<"card">>,
  CardFooter |-> <<"card", "border">>,
  Select |-> <<"background", "border", "foreground">>,
  Modal |-> <<"background", "foreground", "border">> ]

\* tokenMap[comp.name] || [] : an own key gives its array, a key inherited
\* from Object.prototype gives a truthy value that is not an array
TokenLookup(name) ==
  IF name \in DOMAIN tokenMap THEN [isArray |-> TRUE, items |-> tokenMap[name]]
  ELSE IF name \in ObjectPrototypeKeys THEN [isArray |-> FALSE, items |-> <<>>]
  ELSE [isArray |-> TRUE, items |-> <<>>]

\* Set.prototype.add over a sequence, keeping insertion order
RECURSIVE AddAll(_, _)
AddAll(acc, items) ==
  IF Len(items) = 0 THEN acc
  ELSE AddAll(IF \E i \in 1..Len(acc) : acc[i] = items[1] THEN acc ELSE Append(acc, items[1]),
              Tail(items))

RECURSIVE TokenSetFrom(_, _, _)
TokenSetFrom(components, i, acc) ==
  IF i > Len(components) THEN acc
  ELSE TokenSetFrom(components, i + 1, AddAll(acc, TokenLookup(components[i].name).items))

InsertSorted(sorted, x) ==
  LET keep == {i \in 1..Len(sorted) : ~StrLess(x, sorted[i])}
      n == IF keep = {} THEN 0 ELSE CHOOSE i \in keep : \A j \in keep : j <= i
  IN SubSeq(sorted, 1, n) \o <<x>> \o SubSeq(sorted, n + 1, Len(sorted))

RECURSIVE SortFrom(_, _, _)
SortFrom(items, i, acc) ==
  IF i > Len(items) THEN acc ELSE SortFrom(items, i + 1, InsertSorted(acc, items[i]))

\* Array.prototype.sort() without comparator: ascending by UTF-16 code units
SortStrings(items) == SortFrom(items, 1, <<>>)

\* collectTokens; compTokens.forEach throws a TypeError when the lookup gave
\* a value that is not an array
collectTokens(components) ==
  IF \E i \in 1..Len(components) : ~TokenLookup(components[i].name).isArray
    THEN [threw |-> TRUE, error |-> "TypeError"]
    ELSE [threw |-> FALSE, value |-> SortStrings(TokenSetFrom(components, 1, <<>>))]

\* field.charAt(0).toUpperCase() + field.slice(1)
Capitalize(field) == ToUpperCase(SubSeq(field, 1, 1)) \o SubSeq(field, 2, Len(field))

\* Array.prototype.findIndex, zero-based, -1 when absent
FindIndex(seq, Test(_)) ==
  IF \E i \in 1..Len(seq) : Test(seq[i])
    THEN (CHOOSE i \in 1..Len(seq) : Test(seq[i]) /\ \A j \in 1..(i - 1) : ~Test(seq[j])) - 1
    ELSE -1

\* a splice that ignores its start and adds the items at the end
SpliceAtEnd(seq, start, items) == seq \o items

\* Array.prototype.splice(start, 0, ...items) with a zero-based start
Splice(seq, start, items) ==
  LET n == Len(seq)
      at == IF start < 0 THEN (IF n + start < 0 THEN 0 ELSE n + start)
            ELSE (IF start > n THEN n ELSE start)
  IN SubSeq(seq, 1, at) \o items \o SubSeq(seq, at + 1, n)

\* buildComponentList without the copy: the splice acts on pattern.components
buildComponentListInPlace(pattern, intent) ==
  LET components == pattern.components
      isFormPattern == \E i \in 1..Len(pattern.keywords) :
                         pattern.keywords[i] \in {"form", "data entry"}
      fields == extractFormFields(intent)
      contentIndex == FindIndex(components,
                        LAMBDA c : c.name = "CardContent" /\ Has(c, "slot") /\ c.slot = "content")
      insertIndex == IF contentIndex # -1 THEN contentIndex + 1 ELSE Len(components) - 2
      dynamicInputs == [i \in 1..Len(fields) |->
        [name |-> "Input",
         props |-> <<Prop("type", Str(IF fields[i] = "textarea" THEN "text" ELSE fields[i])),
                     Prop("placeholder", Str(Capitalize(fields[i])))>>,
         slot |-> "content"]]
      spliced == IF isFormPattern THEN Splice(components, insertIndex, dynamicInputs)
                 ELSE components
  IN [components |-> spliced, pattern |-> [pattern EXCEPT !.components = spliced]]

\* buildComponentList: the list it returns, and the pattern as the call leaves it
\* (the list is a copy of pattern.components, so the splice acts on the copy)
buildComponentList(pattern, intent) ==
  LET components == pattern.components
      isFormPattern == \E i \in 1..Len(pattern.keywords) :
                         pattern.keywords[i] \in {"form", "data entry"}
      fields == extractFormFields(intent)
      contentIndex == FindIndex(components,
                        LAMBDA c : c.name = "CardContent" /\ Has(c, "slot") /\ c.slot = "content")
      insertIndex == IF contentIndex # -1 THEN contentIndex + 1 ELSE Len(components) - 2
      dynamicInputs == [i \in 1..Len(fields) |->
        [name |-> "Input",
         props |-> <<Prop("type", Str(IF fields[i] = "textarea" THEN "text" ELSE fields[i])),
                     Prop("placeholder", Str(Capitalize(fields[i])))>>,
         slot |-> "content"]]
  IN [components |-> IF isFormPattern THEN Splice(components, insertIndex, dynamicInputs)
                     ELSE components,
      pattern |-> pattern]

\* suggestions that also name a layout pattern, which no intent pattern matches
NoMatchSuggestionsWithLayout ==
  <<"login form", "user profile", "contact form", "navigation header", "settings page",
    "dashboard grid">>

NoMatchSuggestions ==
  <<"login form", "user profile", "contact form", "navigation header", "settings page">>

\* a guard that forgets to trim
IntentIsEmpty(intent) == intent = ""

\* !intent.trim()
IntentIsBlank(intent) == Trim(intent) = ""

\* a no-match payload without the suggestions
NoMatchPayloadBare ==
  [layout |-> [type |-> "stack", direction |-> "column"],
   components |-> <<>>,
   code |-> "// No matching pattern found for this intent",
   tokens |-> <<>>]

\* the payload returned for an intent that matches no pattern
NoMatchPayload ==
  [layout |-> [type |-> "stack", direction |-> "column"],
   components |-> <<>>,
   code |-> "// No matching pattern found for this intent",
   tokens |-> <<>>,
   suggestions |-> NoMatchSuggestions]

\* composeInterface that wraps the code of context component like a page
composeInterfaceWrapsComponent(table, input) ==
  LET idx == MatchIndex(table, input.intent)
      pattern == matchIntent(table, input.intent)
      built == buildComponentList(pattern, input.intent)
      code == generateCode(built.pattern.layout, built.components,
                           IF input.context = "component" THEN "page" ELSE input.context)
      tokens == collectTokens(built.components)
  IN IF IntentIsBlank(input.intent)
       THEN [threw |-> TRUE, error |-> "Intent cannot be empty", table |-> table]
     ELSE IF idx = 0
       THEN [threw |-> FALSE, value |-> NoMatchPayload, table |-> table]
     ELSE IF code.threw \/ tokens.threw
       THEN [threw |-> TRUE, error |-> "TypeError",
             table |-> [table EXCEPT ![idx] = built.pattern]]
     ELSE [threw |-> FALSE,
           value |-> [layout |-> built.pattern.layout,
                      components |-> built.components,
                      code |-> code.value,
                      tokens |-> tokens.value],
           table |-> [table EXCEPT ![idx] = built.pattern]]

\* composeInterface run against the table: outcome, and the table as the call leaves it
composeInterface(table, input) ==
  LET idx == MatchIndex(table, input.intent)
      pattern == matchIntent(table, input.intent)
      built == buildComponentList(pattern, input.intent)
      code == generateCode(built.pattern.layout, built.components, input.context)
      tokens == collectTokens(built.components)
  IN IF IntentIsBlank(input.intent)
       THEN [threw |-> TRUE, error |-> "Intent cannot be empty", table |-> table]
     ELSE IF idx = 0
       THEN [threw |-> FALSE, value |-> NoMatchPayload, table |-> table]
     ELSE IF code.threw \/ tokens.threw
       THEN [threw |-> TRUE, error |-> "TypeError",
             table |-> [table EXCEPT ![idx] = built.pattern]]
     ELSE [threw |-> FALSE,
           value |-> [layout |-> built.pattern.layout,
                      components |-> built.components,
                      code |-> code.value,
                      tokens |-> tokens.value],
           table |-> [table EXCEPT ![idx] = built.pattern]]


(***************************************************************************)
(* validate_accessibility: the regular-expression JSX parser               *)
(***************************************************************************)
\* the characters of the regular-expression class \w
WordTable == "ABCDEFGHIJKLMNOPQRSTUVWXYZabcdefghijklmnopqrstuvwxyz0123456789_"

WordChars == {CharAt(WordTable, i) : i \in 1..Len(WordTable)}

IsWord(c) == c \in WordChars

\* last index of the longest run of \w characters that starts at i (i - 1: no run)
RECURSIVE WordRunEnd(_, _)
WordRunEnd(s, i) ==
  IF i <= Len(s) /\ IsWord(CharAt(s, i)) THEN WordRunEnd(s, i + 1) ELSE i - 1

\* last index of the longest run of \s characters that starts at i (i - 1: no run)
RECURSIVE SpaceRunEnd(_, _)
SpaceRunEnd(s, i) ==
  IF i <= Len(s) /\ CharAt(s, i) \in WhiteSpace THEN SpaceRunEnd(s, i + 1) ELSE i - 1

\* start of the longest key \w+(?:-\w+)* that ends at e and starts at or after from
RECURSIVE KeyStart(_, _, _)
KeyStart(s, e, from) ==
  IF e - 1 >= from /\ IsWord(CharAt(s, e - 1)) THEN KeyStart(s, e - 1, from)
  ELSE IF e - 2 >= from /\ CharAt(s, e - 1) = "-" /\ IsWord(CharAt(s, e - 2))
    THEN KeyStart(s, e - 2, from)
  ELSE e

\* props[key] = value on an insertion-ordered object
SetProp(props, key, value) ==
  IF HasProp(props, key)
    THEN [i \in 1..Len(props) |-> IF props[i].k = key THEN Prop(key, value) ELSE props[i]]
    ELSE Append(props, Prop(key, value))

\* the exec loop of stringPropRegex /(\w+(?:-\w+)*)="([^"]*)"/g from index from
RECURSIVE StringProps(_, _, _, _)
StringProps(s, from, q, props) ==
  LET eq == FirstIndexOf(s, "=", q)
      close == FirstIndexOf(s, "\"", eq + 2)
      ok == /\ eq - 1 >= from
            /\ IsWord(CharAt(s, eq - 1))
            /\ eq + 1 <= Len(s) /\ CharAt(s, eq + 1) = "\""
            /\ close > 0
      key == SubSeq(s, KeyStart(s, eq - 1, from), eq - 1)
  IN IF eq = 0 THEN props
     ELSE IF ok THEN StringProps(s, close + 1, close + 1,
                                 SetProp(props, key, Str(SubSeq(s, eq + 2, close - 1))))
     ELSE StringProps(s, from, eq + 1, props)

IsDigits(v) == Len(v) > 0 /\ \A i \in 1..Len(v) : IndexIn(Digits, CharAt(v, i)) > 0

RECURSIVE ParseNat(_)
ParseNat(v) ==
  IF Len(v) = 0 THEN 0
  ELSE 10 * ParseNat(SubSeq(v, 1, Len(v) - 1)) + (IndexIn(Digits, CharAt(v, Len(v))) - 1)

\* the value stored for key={value}: true, false, a number when Number(value)
\* is not NaN (decimal integers and the empty string here), else the text
ExprValue(value) ==
  IF value = "true" THEN Bool(TRUE)
  ELSE IF value = "false" THEN Bool(FALSE)
  ELSE IF value = "" THEN Num(0)
  ELSE IF IsDigits(value) THEN Num(ParseNat(value))
  ELSE IF Len(value) > 1 /\ CharAt(value, 1) = "-" /\ IsDigits(SubSeq(value, 2, Len(value)))
    THEN Num(0 - ParseNat(SubSeq(value, 2, Len(value))))
  ELSE Str(value)

\* the exec loop of exprPropRegex /(\w+(?:-\w+)*)=\{([^}]+)\}/g from index from
RECURSIVE ExprProps(_, _, _, _)
ExprProps(s, from, q, props) ==
  LET eq == FirstIndexOf(s, "=", q)
      close == FirstIndexOf(s, "}", eq + 3)
      ok == /\ eq - 1 >= from
            /\ IsWord(CharAt(s, eq - 1))
            /\ eq + 1 <= Len(s) /\ CharAt(s, eq + 1) = "{"
            /\ close > 0
      key == SubSeq(s, KeyStart(s, eq - 1, from), eq - 1)
  IN IF eq = 0 THEN props
     ELSE IF ok THEN ExprProps(s, close + 1, close + 1,
                               SetProp(props, key, ExprValue(Trim(SubSeq(s, eq + 2, close - 1)))))
     ELSE ExprProps(s, from, eq + 1, props)

parseProps(propsStr) == ExprProps(propsStr, 1, 1, StringProps(propsStr, 1, 1, <<>>))

\* end of the name \w+(?:\.\w+)? matched greedily from index i, i - 1 if none
NameEnd(s, i) ==
  LET w == WordRunEnd(s, i)
  IN IF w >= i /\ w + 1 <= Len(s) /\ CharAt(s, w + 1) = "." /\ WordRunEnd(s, w + 2) >= w + 2
       THEN WordRunEnd(s, w + 2) ELSE w

\* a match of selfClosingRegex /<(\w+(?:\.\w+)?)\s*([^>]*?)\/>/ starting at i
SelfClosingAt(s, i) ==
  LET e == NameEnd(s, i + 1)
      gt == FirstIndexOf(s, ">", e + 1)
      ws == SpaceRunEnd(s, e + 1)
      propsFrom == IF ws + 1 > gt - 1 THEN gt - 1 ELSE ws + 1
  IN IF CharAt(s, i) = "<" /\ e >= i + 1 /\ gt > e + 1 /\ CharAt(s, gt - 1) = "/"
       THEN [found |-> TRUE, end |-> gt,
             comp |-> [name |-> SubSeq(s, i + 1, e),
                       props |-> parseProps(SubSeq(s, propsFrom, gt - 2))]]
       ELSE [found |-> FALSE]

\* the exec loop of selfClosingRegex from index i
RECURSIVE SelfClosingFrom(_, _)
SelfClosingFrom(s, i) ==
  IF i > Len(s) THEN <<>>
  ELSE IF SelfClosingAt(s, i).found
    THEN <<SelfClosingAt(s, i).comp>> \o SelfClosingFrom(s, SelfClosingAt(s, i).end + 1)
  ELSE SelfClosingFrom(s, i + 1)

\* openingRegex /<(\w+(?:\.\w+)?)\s*([^>]*)>([^<]*)<\/\1>/ at i with the name ending at e
OpeningWith(s, i, e) ==
  LET name == SubSeq(s, i + 1, e)
      gt == FirstIndexOf(s, ">", e + 1)
      lt == FirstIndexOf(s, "<", gt + 1)
      ws == SpaceRunEnd(s, e + 1)
      propsFrom == IF ws + 1 > gt THEN gt ELSE ws + 1
      closing == "</" \o name \o ">"
      children == Trim(SubSeq(s, gt + 1, lt - 1))
      props == parseProps(SubSeq(s, propsFrom, gt - 1))
  IN IF gt > 0 /\ lt > 0 /\ lt + Len(closing) - 1 <= Len(s)
          /\ SubSeq(s, lt, lt + Len(closing) - 1) = closing
       THEN [found |-> TRUE, end |-> lt + Len(closing) - 1,
             comp |-> IF children # ""
                        THEN [name |-> name, props |-> props, children |-> Str(children)]
                        ELSE [name |-> name, props |-> props]]
       ELSE [found |-> FALSE]

\* the name ends the matcher tries at i, in backtracking order: the dotted
\* name from its longest second part down, then the first part from its longest
NameEnds(s, i) ==
  LET w == WordRunEnd(s, i + 1)
      v == NameEnd(s, i + 1)
  IN [k \in 1..((v - w) - (IF v > w THEN 1 ELSE 0)) |-> v + 1 - k]
     \o [k \in 1..(w - i) |-> w + 1 - k]

OpeningAt(s, i) ==
  LET ends == NameEnds(s, i)
      good == {k \in 1..Len(ends) : OpeningWith(s, i, ends[k]).found}
  IN IF CharAt(s, i) = "<" /\ good # {}
       THEN OpeningWith(s, i, ends[CHOOSE k \in good : \A j \in good : k <= j])
       ELSE [found |-> FALSE]

\* the exec loop of openingRegex from index i
RECURSIVE OpeningFrom(_, _)
OpeningFrom(s, i) ==
  IF i > Len(s) THEN <<>>
  ELSE IF OpeningAt(s, i).found
    THEN <<OpeningAt(s, i).comp>> \o OpeningFrom(s, OpeningAt(s, i).end + 1)
  ELSE OpeningFrom(s, i + 1)

parseJSXToComponents(code) == SelfClosingFrom(code, 1) \o OpeningFrom(code, 1)


(***************************************************************************)
(* validate_accessibility: validators, score, summary, passed rules        *)
(***************************************************************************)
Issue(severity, rule, wcag, component, message, suggestion) ==
  [severity |-> severity, rule |-> rule, wcag |-> wcag, component |-> component,
   message |-> message, suggestion |-> suggestion]

\* an Input validator that asks whether the attributes are present
validateInputPresence(component) ==
  LET props == component.props
      hasAriaLabel == HasProp(props, "aria-label")
      hasAriaLabelledBy == HasProp(props, "aria-labelledby")
      hasId == HasProp(props, "id")
      hasPlaceholder == HasProp(props, "placeholder")
  IN (IF ~hasAriaLabel /\ ~hasAriaLabelledBy /\ ~hasId
        THEN <<Issue("error", "input-needs-label", "1.3.1, 4.1.2", "Input",
                     "Input is missing an accessible label",
                     "Add aria-label, aria-labelledby, or associate with a Label using id")>>
        ELSE <<>>)
     \o (IF hasPlaceholder /\ ~hasAriaLabel /\ ~hasAriaLabelledBy /\ hasId
           THEN <<Issue("warning", "placeholder-not-label", "3.3.2", "Input",
                        "Placeholder used as only visible indicator",
                        "Add a visible label; placeholder disappears when user types")>>
           ELSE <<>>)

validateInput(component) ==
  LET props == component.props
      hasAriaLabel == PropTruthy(props, "aria-label")
      hasAriaLabelledBy == PropTruthy(props, "aria-labelledby")
      hasId == PropTruthy(props, "id")
      hasPlaceholder == PropTruthy(props, "placeholder")
  IN (IF ~hasAriaLabel /\ ~hasAriaLabelledBy /\ ~hasId
        THEN <<Issue("error", "input-needs-label", "1.3.1, 4.1.2", "Input",
                     "Input is missing an accessible label",
                     "Add aria-label, aria-labelledby, or associate with a Label using id")>>
        ELSE <<>>)
     \o (IF hasPlaceholder /\ ~hasAriaLabel /\ ~hasAriaLabelledBy /\ hasId
           THEN <<Issue("warning", "placeholder-not-label", "3.3.2", "Input",
                        "Placeholder used as only visible indicator",
                        "Add a visible label; placeholder disappears when user types")>>
           ELSE <<>>)

\* a Button validator that takes any children for text content
validateButtonAnyChildren(component) ==
  LET hasAriaLabel == PropTruthy(component.props, "aria-label")
      hasTextContent == Has(component, "children") /\ Truthy(component.children)
  IN IF ~hasAriaLabel /\ ~hasTextContent
       THEN <<Issue("error", "button-needs-name", "4.1.2", "Button",
                    "Button has no accessible name",
                    "Add text content or aria-label to the Button")>>
       ELSE <<>>

validateButton(component) ==
  LET hasAriaLabel == PropTruthy(component.props, "aria-label")
      hasTextContent == /\ Has(component, "children")
                        /\ component.children.type = "string"
                        /\ Len(Trim(component.children.val)) > 0
  IN IF ~hasAriaLabel /\ ~hasTextContent
       THEN <<Issue("error", "button-needs-name", "4.1.2", "Button",
                    "Button has no accessible name",
                    "Add text content or aria-label to the Button")>>
       ELSE <<>>

\* a Modal validator that warns about a missing description even without a label
validateModalAlwaysDescribes(component) ==
  LET props == component.props
      hasTitle == PropTruthy(props, "title")
      hasAriaLabel == PropTruthy(props, "aria-label")
      hasAriaLabelledBy == PropTruthy(props, "aria-labelledby")
      hasDescription == PropTruthy(props, "description")
      hasAriaDescribedBy == PropTruthy(props, "aria-describedby")
  IN (IF ~hasTitle /\ ~hasAriaLabel /\ ~hasAriaLabelledBy
        THEN <<Issue("error", "modal-needs-label", "4.1.2", "Modal.Content",
                     "Modal dialog is missing an accessible label",
                     "Add title prop or aria-label/aria-labelledby to Modal.Content")>>
        ELSE <<>>)
     \o (IF ~hasDescription /\ ~hasAriaDescribedBy
           THEN <<Issue("warning", "modal-needs-description", "4.1.2", "Modal.Content",
                        "Modal dialog has no description for context",
                        "Add description prop or aria-describedby for additional context")>>
           ELSE <<>>)

validateModal(component) ==
  LET props == component.props
      hasTitle == PropTruthy(props, "title")
      hasAriaLabel == PropTruthy(props, "aria-label")
      hasAriaLabelledBy == PropTruthy(props, "aria-labelledby")
      hasDescription == PropTruthy(props, "description")
      hasAriaDescribedBy == PropTruthy(props, "aria-describedby")
  IN (IF ~hasTitle /\ ~hasAriaLabel /\ ~hasAriaLabelledBy
        THEN <<Issue("error", "modal-needs-label", "4.1.2", "Modal.Content",
                     "Modal dialog is missing an accessible label",
                     "Add title prop or aria-label/aria-labelledby to Modal.Content")>>
        ELSE <<>>)
     \o (IF (hasTitle \/ hasAriaLabel \/ hasAriaLabelledBy)
             /\ ~hasDescription /\ ~hasAriaDescribedBy
           THEN <<Issue("warning", "modal-needs-description", "4.1.2", "Modal.Content",
                        "Modal dialog has no description for context",
                        "Add description prop or aria-describedby for additional context")>>
           ELSE <<>>)

\* a Select validator that reports the missing label as an error and as a warning
validateSelectTwice(component) ==
  LET props == component.props
      unlabelled == /\ ~PropTruthy(props, "aria-label")
                    /\ ~PropTruthy(props, "aria-labelledby")
                    /\ ~PropTruthy(props, "id")
  IN IF unlabelled
       THEN <<Issue("error", "select-needs-label", "1.3.1", "Select",
                    "Select is missing an accessible label",
                    "Add aria-label, aria-labelledby, or id with associated label"),
              Issue("warning", "select-needs-label", "1.3.1", "Select",
                    "Select is missing an accessible label",
                    "Add aria-label, aria-labelledby, or id with associated label")>>
       ELSE <<>>

validateSelect(component) ==
  LET props == component.props
      hasAriaLabel == PropTruthy(props, "aria-label")
      hasAriaLabelledBy == PropTruthy(props, "aria-labelledby")
      hasId == PropTruthy(props, "id")
  IN IF ~hasAriaLabel /\ ~hasAriaLabelledBy /\ ~hasId
       THEN <<Issue("error", "select-needs-label", "1.3.1, 4.1.2", "Select",
                    "Select is missing an accessible label",
                    "Add aria-label or associate with a Label element")>>
       ELSE <<>>

\* an image validator that takes an empty alt for a missing one
validateImageFalsyAlt(component) ==
  LET props == component.props
      hasAlt == PropTruthy(props, "alt")
      alt == GetProp(props, "alt")
      lowerAlt == ToLowerCase(alt.val)
  IN (IF ~hasAlt
        THEN <<Issue("error", "img-needs-alt", "1.1.1", "img",
                     "Image is missing alt text",
                     "Add alt attribute with descriptive text, or alt='' for decorative images")>>
        ELSE <<>>)
     \o (IF hasAlt /\ alt.type = "string" /\ Len(alt.val) > 0
             /\ (Includes(lowerAlt, "image of") \/ Includes(lowerAlt, "picture of")
                 \/ Includes(lowerAlt, "photo of"))
           THEN <<Issue("warning", "redundant-alt", "1.1.1", "img",
                        "Alt text contains redundant words",
                        "Remove 'image of' prefix; screen readers announce images")>>
           ELSE <<>>)

validateImage(component) ==
  LET props == component.props
      hasAlt == HasProp(props, "alt")
      alt == GetProp(props, "alt")
      lowerAlt == ToLowerCase(alt.val)
  IN (IF ~hasAlt
        THEN <<Issue("error", "img-needs-alt", "1.1.1", "img",
                     "Image is missing alt text",
                     "Add alt attribute with descriptive text, or alt='' for decorative images")>>
        ELSE <<>>)
     \o (IF hasAlt /\ alt.type = "string" /\ Len(alt.val) > 0
             /\ (Includes(lowerAlt, "image of") \/ Includes(lowerAlt, "picture of")
                 \/ Includes(lowerAlt, "photo of"))
           THEN <<Issue("warning", "redundant-alt", "1.1.1", "img",
                        "Alt text contains redundant words",
                        "Remove 'image of' prefix; screen readers announce images")>>
           ELSE <<>>)

\* a dispatcher that reports every component it has no rule for
validateComponentStrict(component) ==
  CASE component.name = "Input" -> validateInput(component)
    [] component.name = "Button" -> validateButton(component)
    [] component.name = "Modal.Content" -> validateModal(component)
    [] component.name = "Select" -> validateSelect(component)
    [] component.name = "img" -> validateImage(component)
    [] OTHER -> <<Issue("info", "unknown-component", "", component.name,
                        "Component has no accessibility rule", "")>>

validateComponent(component) ==
  CASE component.name = "Input" -> validateInput(component)
    [] component.name = "Button" -> validateButton(component)
    [] component.name = "Modal.Content" -> validateModal(component)
    [] component.name = "Select" -> validateSelect(component)
    [] component.name = "img" -> validateImage(component)
    [] OTHER -> <<>>

weights == [error |-> 25, warning |-> 10, info |-> 2]

RECURSIVE ScoreFrom(_, _, _)
ScoreFrom(issues, i, score) ==
  IF i > Len(issues) THEN score
  ELSE ScoreFrom(issues, i + 1, score - weights[issues[i].severity])

Max(a, b) == IF a >= b THEN a ELSE b

\* a score that is not clamped at zero
calculateScoreUnclamped(issues) == ScoreFrom(issues, 1, 100)

calculateScore(issues) == Max(0, ScoreFrom(issues, 1, 100))

CountSeverity(issues, severity) ==
  Len(SelectSeq(issues, LAMBDA i : i.severity = severity))

\* a summary that writes every count in the plural
generateSummaryAlwaysPlural(issues, score) ==
  LET errorCount == CountSeverity(issues, "error")
      warningCount == CountSeverity(issues, "warning")
      parts == (IF errorCount > 0 THEN <<NumToString(errorCount) \o " errors">> ELSE <<>>)
               \o (IF warningCount > 0 THEN <<NumToString(warningCount) \o " warnings">> ELSE <<>>)
  IN IF Len(issues) = 0 THEN "All accessibility checks passed. Score: 100/100"
     ELSE "Found " \o Join(parts, " and ") \o ". Score: " \o NumToString(score) \o "/100"

generateSummary(issues, score) ==
  LET errorCount == CountSeverity(issues, "error")
      warningCount == CountSeverity(issues, "warning")
      parts == (IF errorCount > 0
                  THEN <<NumToString(errorCount) \o " error"
                         \o (IF errorCount > 1 THEN "s" ELSE "")>>
                  ELSE <<>>)
               \o (IF warningCount > 0
                     THEN <<NumToString(warningCount) \o " warning"
                            \o (IF warningCount > 1 THEN "s" ELSE "")>>
                     ELSE <<>>)
  IN IF Len(issues) = 0 THEN "All accessibility checks passed. Score: 100/100"
     ELSE "Found " \o Join(parts, " and ") \o ". Score: " \o NumToString(score) \o "/100"

\* the primary rule the switch of getPassedRules tracks for a component name
PrimaryRule(name) ==
  CASE name = "Button" -> "button-needs-name"
    [] name = "Input" -> "input-needs-label"
    [] name = "Modal.Content" -> "modal-needs-label"
    [] name = "Select" -> "select-needs-label"
    [] name = "img" -> "img-needs-alt"
    [] OTHER -> ""

RECURSIVE PassedFrom(_, _, _, _)
PassedFrom(components, failedRules, i, passedRules) ==
  IF i > Len(components) THEN passedRules
  ELSE LET rule == PrimaryRule(components[i].name)
       IN PassedFrom(components, failedRules, i + 1,
            IF rule # "" /\ rule \notin failedRules /\ rule \notin SeqToSet(passedRules)
              THEN Append(passedRules, rule) ELSE passedRules)

\* passed rules that do not consult the rules that fired
getPassedRulesIgnoringFailures(components, issues) ==
  PassedFrom(components, {}, 1, <<>>)

getPassedRules(components, issues) ==
  PassedFrom(components, {issues[i].rule : i \in 1..Len(issues)}, 1, <<>>)

\* validity that demands a clean report
IsValidNoIssues(issues) == Len(issues) = 0

\* issues.filter((i) => i.severity === "error").length === 0
IsValid(issues) == CountSeverity(issues, "error") = 0

RECURSIVE IssuesFrom(_, _)
IssuesFrom(components, i) ==
  IF i > Len(components) THEN <<>>
  ELSE validateComponent(components[i]) \o IssuesFrom(components, i + 1)

\* a validator that parses the code whenever code is supplied
validateAccessibilityCodeFirst(input) ==
  LET codeFalsy == ~Has(input, "code") \/ input.code = ""
      components == IF ~codeFalsy THEN parseJSXToComponents(input.code)
                    ELSE input.components
      issues == IssuesFrom(components, 1)
      score == calculateScore(issues)
      valid == IsValid(issues)
  IN IF codeFalsy /\ ~Has(input, "components")
       THEN [threw |-> TRUE, error |-> "Either code or components must be provided"]
       ELSE [threw |-> FALSE,
             value |-> [valid |-> valid, score |-> score, issues |-> issues,
                        summary |-> generateSummary(issues, score),
                        passedRules |-> getPassedRules(components, issues)]]

validateAccessibility(input) ==
  LET codeFalsy == ~Has(input, "code") \/ input.code = ""
      components == IF Has(input, "components") THEN input.components
                    ELSE parseJSXToComponents(input.code)
      issues == IssuesFrom(components, 1)
      score == calculateScore(issues)
      valid == IsValid(issues)
  IN IF codeFalsy /\ ~Has(input, "components")
       THEN [threw |-> TRUE, error |-> "Either code or components must be provided"]
       ELSE [threw |-> FALSE,
             value |-> [valid |-> valid, score |-> score, issues |-> issues,
                        summary |-> generateSummary(issues, score),
                        passedRules |-> getPassedRules(components, issues)]]


(***************************************************************************)
(* get_layout_pattern                                                      *)
(***************************************************************************)
\* options?.key ?? default, where options is the input's options object or,
\* when the input has none, the empty object
OptionOr(options, key, default) == IF key \in DOMAIN options THEN options[key] ELSE default

NoOptions == <<>>

\* patterns["form-layout"].generateCode
FormLayoutCode(options) ==
  LET title == OptionOr(options, "title", "Form Title")
      description == OptionOr(options, "description", "Enter your information below")
      primaryAction == OptionOr(options, "primaryAction", "Submit")
      secondaryAction == OptionOr(options, "secondaryAction", "Cancel")
  IN "<Card>\n"
     \o "  <CardHeader>\n"
     \o "    <CardTitle>" \o title \o "</CardTitle>\n"
     \o "    <CardDescription>" \o description \o "</CardDescription>\n"
     \o "  </CardHeader>\n"
     \o "  <CardContent className=\"space-y-4\">\n"
     \o "    <div className=\"space-y-2\">\n"
     \o "      <Label htmlFor=\"field1\">Field 1</Label>\n"
     \o "      <Input id=\"field1\" placeholder=\"Enter value\" />\n"
     \o "    </div>\n"
     \o "    {/* Add more fields here */}\n"
     \o "  </CardContent>\n"
     \o "  <CardFooter>\n"
     \o "    <div className=\"flex justify-end gap-2 w-full\">\n"
     \o "      <Button variant=\"outline\">" \o secondaryAction \o "</Button>\n"
     \o "      <Button>" \o primaryAction \o "</Button>\n"
     \o "    </div>\n"
     \o "  </CardFooter>\n"
     \o "</Card>"

\* patterns["split-view"].generateCode
SplitViewCode(options) ==
  LET title == OptionOr(options, "title", "Dashboard")
  IN "<div className=\"grid grid-cols-[250px_1fr] min-h-screen\">\n"
     \o "  <aside className=\"border-r border-border bg-muted/30 p-4\">\n"
     \o "    <nav className=\"space-y-2\">\n"
     \o "      <Button variant=\"ghost\" className=\"w-full justify-start\">" \o title \o "</Button>\n"
     \o "      <Button variant=\"ghost\" className=\"w-full justify-start\">Settings</Button>\n"
     \o "      <Button variant=\"ghost\" className=\"w-full justify-start\">Profile</Button>\n"
     \o "    </nav>\n"
     \o "  </aside>\n"
     \o "  <main className=\"p-6\">\n"
     \o "    {/* Main content here */}\n"
     \o "  </main>\n"
     \o "</div>"

\* patterns["dashboard-grid"].generateCode
DashboardGridCode(options) ==
  LET columns == OptionOr(options, "columns", 3)
  IN "<div className=\"space-y-6\">\n"
     \o "  <div className=\"grid grid-cols-" \o NumToString(columns) \o " gap-4\">\n"
     \o "    <Card>\n"
     \o "      <CardHeader className=\"pb-2\">\n"
     \o "        <CardTitle className=\"text-sm font-medium\">Total Users</CardTitle>\n"
     \o "      </CardHeader>\n"
     \o "      <CardContent>\n"
     \o "        <div className=\"text-2xl font-bold\">1,234</div>\n"
     \o "      </CardContent>\n"
     \o "    </Card>\n"
     \o "    <Card>\n"
     \o "      <CardHeader className=\"pb-2\">\n"
     \o "        <CardTitle className=\"text-sm font-medium\">Revenue</CardTitle>\n"
     \o "      </CardHeader>\n"
     \o "      <CardContent>\n"
     \o "        <div className=\"text-2xl font-bold\">$12,345</div>\n"
     \o "      </CardContent>\n"
     \o "    </Card>\n"
     \o "    <Card>\n"
     \o "      <CardHeader className=\"pb-2\">\n"
     \o "        <CardTitle className=\"text-sm font-medium\">Active Now</CardTitle>\n"
     \o "      </CardHeader>\n"
     \o "      <CardContent>\n"
     \o "        <div className=\"text-2xl font-bold\">42</div>\n"
     \o "      </CardContent>\n"
     \o "    </Card>\n"
     \o "  </div>\n"
     \o "  <Card className=\"col-span-full\">\n"
     \o "    {/* Main content here */}\n"
     \o "  </Card>\n"
     \o "</div>"

\* patterns["modal-confirm"].generateCode
ModalConfirmCode(options) ==
  LET title == OptionOr(options, "title", "Confirm Action")
      description == OptionOr(options, "description", "Are you sure you want to proceed?")
      primaryAction == OptionOr(options, "primaryAction", "Confirm")
      secondaryAction == OptionOr(options, "secondaryAction", "Cancel")
      variant == OptionOr(options, "variant", "default")
      primaryButton == IF variant = "destructive"
                         THEN "<Button variant=\"destructive\">" \o primaryAction \o "</Button>"
                         ELSE "<Button>" \o primaryAction \o "</Button>"
  IN "<Modal>\n"
     \o "  <Modal.Trigger>\n"
     \o "    <Button variant=\"outline\">Open</Button>\n"
     \o "  </Modal.Trigger>\n"
     \o "  <Modal.Content title=\"" \o title \o "\" description=\"" \o description \o "\">\n"
     \o "    <div className=\"flex justify-end gap-2 mt-4\">\n"
     \o "      <Button variant=\"outline\">" \o secondaryAction \o "</Button>\n"
     \o "      " \o primaryButton \o "\n"
     \o "    </div>\n"
     \o "  </Modal.Content>\n"
     \o "</Modal>"

\* patterns["list-with-actions"].generateCode
ListWithActionsCode(options) ==
  LET title == OptionOr(options, "title", "Items")
      description == OptionOr(options, "description", "Manage your items")
  IN "<Card>\n"
     \o "  <CardHeader>\n"
     \o "    <CardTitle>" \o title \o "</CardTitle>\n"
     \o "    <CardDescription>" \o description \o "</CardDescription>\n"
     \o "  </CardHeader>\n"
     \o "  <CardContent className=\"p-0\">\n"
     \o "    <div className=\"divide-y divide-border\">\n"
     \o "      <div className=\"flex items-center justify-between p-4\">\n"
     \o "        <div>Item 1</div>\n"
     \o "        <div className=\"flex gap-2\">\n"
     \o "          <Button variant=\"ghost\" size=\"sm\">Edit</Button>\n"
     \o "          <Button variant=\"ghost\" size=\"sm\">Delete</Button>\n"
     \o "        </div>\n"
     \o "      </div>\n"
     \o "      <div className=\"flex items-center justify-between p-4\">\n"
     \o "        <div>Item 2</div>\n"
     \o "        <div className=\"flex gap-2\">\n"
     \o "          <Button variant=\"ghost\" size=\"sm\">Edit</Button>\n"
     \o "          <Button variant=\"ghost\" size=\"sm\">Delete</Button>\n"
     \o "        </div>\n"
     \o "      </div>\n"
     \o "    </div>\n"
     \o "  </CardContent>\n"
     \o "  <CardFooter className=\"justify-center\">\n"
     \o "    <Button variant=\"outline\">Load More</Button>\n"
     \o "  </CardFooter>\n"
     \o "</Card>"

\* patterns["hero-section"].generateCode
HeroSectionCode(options) ==
  LET title == OptionOr(options, "title", "Welcome to Our App")
      description == OptionOr(options, "description", "Build amazing things with our powerful tools and intuitive interface.")
      primaryAction == OptionOr(options, "primaryAction", "Get Started")
      secondaryAction == OptionOr(options, "secondaryAction", "Learn More")
  IN "<section className=\"flex flex-col items-center justify-center min-h-[60vh] text-center px-4\">\n"
     \o "  <h1 className=\"text-4xl font-bold tracking-tight sm:text-6xl\">\n"
     \o "    " \o title \o "\n"
     \o "  </h1>\n"
     \o "  <p className=\"mt-6 text-lg text-muted-foreground max-w-2xl\">\n"
     \o "    " \o description \o "\n"
     \o "  </p>\n"
     \o "  <div className=\"mt-10 flex items-center justify-center gap-4\">\n"
     \o "    <Button size=\"lg\">" \o primaryAction \o "</Button>\n"
     \o "    <Button variant=\"outline\" size=\"lg\">" \o secondaryAction \o "</Button>\n"
     \o "  </div>\n"
     \o "</section>"

\* patterns["empty-state"].generateCode
EmptyStateCode(options) ==
  LET title == OptionOr(options, "title", "No items yet")
      description == OptionOr(options, "description", "Get started by creating your first item.")
      primaryAction == OptionOr(options, "primaryAction", "Create Item")
  IN "<div className=\"flex flex-col items-center justify-center py-12 text-center\">\n"
     \o "  <div className=\"rounded-full bg-muted p-4 mb-4\">\n"
     \o "    <InboxIcon className=\"h-8 w-8 text-muted-foreground\" />\n"
     \o "  </div>\n"
     \o "  <h3 className=\"text-lg font-semibold\">" \o title \o "</h3>\n"
     \o "  <p className=\"text-sm text-muted-foreground max-w-sm mt-2\">\n"
     \o "    " \o description \o "\n"
     \o "  </p>\n"
     \o "  <div className=\"mt-6\">\n"
     \o "    <Button>" \o primaryAction \o "</Button>\n"
     \o "  </div>\n"
     \o "</div>"

\* the static patterns table; generateCode names the pattern whose code
\* generator the config holds, and LayoutCode runs it
InitialPatterns ==
  "form-layout" :>
    [generateCode |-> "form-layout",
     structure |-> [type |-> "stack", direction |-> "column", gap |-> "6"],
     components |-> <<
       Comp("Card", <<>>, "wrapper"),
       Comp("CardHeader", <<>>, "header"),
       Comp("CardTitle", <<>>, "header"),
       Comp("CardDescription", <<>>, "header"),
       Comp("CardContent", <<Prop("className", Str("space-y-4"))>>, "content"),
       Comp("Input", <<>>, "content"),
       Comp("CardFooter", <<Prop("className", Str("flex justify-end gap-2"))>>, "footer"),
       Comp("Button", <<Prop("variant", Str("outline"))>>, "footer"),
       Comp("Button", <<Prop("variant", Str("default"))>>, "footer") >>,
     slots |-> <<
       [name |-> "fields", description |-> "Form field area", accepts |-> <<"Input", "Select", "FormField">>],
       [name |-> "actions", description |-> "Footer action buttons", accepts |-> <<"Button">>] >>,
     usage |-> [when |-> <<"Collecting user input", "Data entry forms", "Settings forms">>,
                examples |-> <<"Contact form", "Profile edit", "Checkout form">>],
     tokens |-> <<"border", "card", "card-foreground", "muted-foreground", "primary", "primary-foreground">>]
  @@
  "split-view" :>
    [generateCode |-> "split-view",
     structure |-> [type |-> "grid", columns |-> 2, gap |-> "0"],
     components |-> <<
       Comp("div", <<Prop("className", Str("grid grid-cols-[250px_1fr] min-h-screen"))>>, "wrapper"),
       Comp("aside", <<Prop("className", Str("border-r border-border bg-muted/30 p-4"))>>, "sidebar"),
       Comp("nav", <<Prop("className", Str("space-y-2"))>>, "sidebar"),
       Comp("Button", <<Prop("variant", Str("ghost")), Prop("className", Str("w-full justify-start"))>>, "sidebar"),
       Comp("main", <<Prop("className", Str("p-6"))>>, "main") >>,
     slots |-> <<
       [name |-> "sidebar", description |-> "Navigation sidebar", accepts |-> <<"Button", "nav">>],
       [name |-> "main", description |-> "Main content area", accepts |-> <<"Card", "div", "section">>] >>,
     usage |-> [when |-> <<"Admin dashboards", "Settings pages", "Documentation sites">>,
                examples |-> <<"App settings", "User management", "Content editor">>],
     tokens |-> <<"background", "border", "foreground", "muted">>]
  @@
  "dashboard-grid" :>
    [generateCode |-> "dashboard-grid",
     structure |-> [type |-> "grid", columns |-> 3, gap |-> "4"],
     components |-> <<
       Comp("div", <<Prop("className", Str("space-y-6"))>>, "wrapper"),
       Comp("div", <<Prop("className", Str("grid gap-4"))>>, "stats"),
       Comp("Card", <<>>, "stats"),
       Comp("CardHeader", <<Prop("className", Str("pb-2"))>>, "stats"),
       Comp("CardTitle", <<Prop("className", Str("text-sm font-medium"))>>, "stats"),
       Comp("CardContent", <<>>, "stats") >>,
     slots |-> <<
       [name |-> "stats", description |-> "Stat card grid", accepts |-> <<"Card">>],
       [name |-> "main", description |-> "Main content area below stats", accepts |-> <<"Card", "div">>] >>,
     usage |-> [when |-> <<"Analytics dashboards", "Admin overviews", "Metrics displays">>,
                examples |-> <<"Sales dashboard", "User analytics", "System status">>],
     tokens |-> <<"border", "card", "card-foreground", "muted-foreground">>]
  @@
  "modal-confirm" :>
    [generateCode |-> "modal-confirm",
     structure |-> [type |-> "stack", direction |-> "column", gap |-> "4"],
     components |-> <<
       Comp("Modal", <<>>, "wrapper"),
       Comp("Modal.Trigger", <<>>, "trigger"),
       Comp("Button", <<Prop("variant", Str("outline"))>>, "trigger"),
       Comp("Modal.Content", <<>>, "content"),
       Comp("Button", <<Prop("variant", Str("outline"))>>, "actions"),
       Comp("Button", <<>>, "actions") >>,
     slots |-> <<
       [name |-> "trigger", description |-> "Element that opens the modal", accepts |-> <<"Button">>],
       [name |-> "content", description |-> "Modal body content", accepts |-> <<"div", "p", "form">>],
       [name |-> "actions", description |-> "Action buttons", accepts |-> <<"Button">>] >>,
     usage |-> [when |-> <<"Destructive actions", "Confirmations", "Important decisions">>,
                examples |-> <<"Delete confirmation", "Logout prompt", "Discard changes">>],
     tokens |-> <<"background", "border", "card", "foreground", "muted-foreground", "primary", "destructive">>]
  @@
  "list-with-actions" :>
    [generateCode |-> "list-with-actions",
     structure |-> [type |-> "stack", direction |-> "column", gap |-> "0"],
     components |-> <<
       Comp("Card", <<>>, "wrapper"),
       Comp("CardHeader", <<>>, "header"),
       Comp("CardTitle", <<>>, "header"),
       Comp("CardDescription", <<>>, "header"),
       Comp("CardContent", <<Prop("className", Str("p-0"))>>, "content"),
       Comp("div", <<Prop("className", Str("divide-y divide-border"))>>, "items"),
       Comp("Button", <<Prop("variant", Str("ghost")), Prop("size", Str("sm"))>>, "actions"),
       Comp("CardFooter", <<Prop("className", Str("justify-center"))>>, "footer") >>,
     slots |-> <<
       [name |-> "items", description |-> "List items", accepts |-> <<"div", "ListItem">>],
       [name |-> "actions", description |-> "Per-item actions", accepts |-> <<"Button">>],
       [name |-> "pagination", description |-> "Pagination controls", accepts |-> <<"Button", "Pagination">>] >>,
     usage |-> [when |-> <<"Data lists", "User management", "Content management">>,
                examples |-> <<"User list", "Product inventory", "Task list">>],
     tokens |-> <<"border", "card", "card-foreground", "muted-foreground", "primary">>]
  @@
  "hero-section" :>
    [generateCode |-> "hero-section",
     structure |-> [type |-> "flex", direction |-> "column", gap |-> "6"],
     components |-> <<
       Comp("section", <<Prop("className", Str("flex flex-col items-center justify-center min-h-[60vh] text-center px-4"))>>, "wrapper"),
       Comp("h1", <<Prop("className", Str("text-4xl font-bold tracking-tight sm:text-6xl"))>>, "headline"),
       Comp("p", <<Prop("className", Str("mt-6 text-lg text-muted-foreground max-w-2xl"))>>, "description"),
       Comp("div", <<Prop("className", Str("mt-10 flex items-center justify-center gap-4"))>>, "actions"),
       Comp("Button", <<Prop("size", Str("lg"))>>, "actions"),
       Comp("Button", <<Prop("variant", Str("outline")), Prop("size", Str("lg"))>>, "actions") >>,
     slots |-> <<
       [name |-> "headline", description |-> "Main headline", accepts |-> <<"h1", "span">>],
       [name |-> "description", description |-> "Supporting text", accepts |-> <<"p", "span">>],
       [name |-> "actions", description |-> "CTA buttons", accepts |-> <<"Button">>] >>,
     usage |-> [when |-> <<"Landing pages", "Marketing pages", "Product launches">>,
                examples |-> <<"Homepage hero", "Feature announcement", "Waitlist signup">>],
     tokens |-> <<"background", "foreground", "muted-foreground", "primary", "primary-foreground">>]
  @@
  "empty-state" :>
    [generateCode |-> "empty-state",
     structure |-> [type |-> "flex", direction |-> "column", gap |-> "4"],
     components |-> <<
       Comp("div", <<Prop("className", Str("flex flex-col items-center justify-center py-12 text-center"))>>, "wrapper"),
       Comp("div", <<Prop("className", Str("rounded-full bg-muted p-4 mb-4"))>>, "icon"),
       Comp("h3", <<Prop("className", Str("text-lg font-semibold"))>>, "message"),
       Comp("p", <<Prop("className", Str("text-sm text-muted-foreground max-w-sm mt-2"))>>, "message"),
       Comp("div", <<Prop("className", Str("mt-6"))>>, "actions"),
       Comp("Button", <<>>, "actions") >>,
     slots |-> <<
       [name |-> "icon", description |-> "Illustration or icon", accepts |-> <<"svg", "img", "div">>],
       [name |-> "message", description |-> "Empty state message", accepts |-> <<"h3", "p">>],
       [name |-> "actions", description |-> "Action to resolve empty state", accepts |-> <<"Button">>] >>,
     usage |-> [when |-> <<"No data to display", "First-time user experience", "Search with no results">>,
                examples |-> <<"Empty inbox", "No search results", "No projects yet">>],
     tokens |-> <<"background", "foreground", "muted", "muted-foreground", "primary">>]

LayoutCode(generator, options) ==
  CASE generator = "form-layout" -> FormLayoutCode(options)
    [] generator = "split-view" -> SplitViewCode(options)
    [] generator = "dashboard-grid" -> DashboardGridCode(options)
    [] generator = "modal-confirm" -> ModalConfirmCode(options)
    [] generator = "list-with-actions" -> ListWithActionsCode(options)
    [] generator = "hero-section" -> HeroSectionCode(options)
    [] generator = "empty-state" -> EmptyStateCode(options)

\* const structure = { ...config.structure }; the columns override acts on the
\* copy: the structure returned, and the config as the call leaves it
StructureFor(config, pattern, options) ==
  [structure |-> IF pattern = "dashboard-grid" /\ "columns" \in DOMAIN options
                      /\ options.columns # 0
                   THEN [config.structure EXCEPT !.columns = options.columns]
                   ELSE config.structure,
   config |-> config]

\* tokens: [...config.tokens].sort(): the list returned, and the config as the
\* call leaves it
SortedTokens(config) == [tokens |-> SortStrings(config.tokens), config |-> config]

\* a fallback to the first pattern for a name that is not a key
ConfigForFallback(table, pattern) ==
  IF pattern \in DOMAIN table THEN [kind |-> "own", config |-> table[pattern]]
  ELSE [kind |-> "own", config |-> table["form-layout"]]

\* patterns[pattern]: the config of an own key, a truthy value without
\* generateCode for a key inherited from Object.prototype, undefined otherwise
ConfigFor(table, pattern) ==
  IF pattern \in DOMAIN table THEN [kind |-> "own", config |-> table[pattern]]
  ELSE IF pattern \in ObjectPrototypeKeys THEN [kind |-> "inherited"]
  ELSE [kind |-> "undefined"]

\* getLayoutPattern run against the table: outcome, and the table as the call leaves it
getLayoutPattern(table, input) ==
  LET pattern == input.pattern
      options == IF Has(input, "options") THEN input.options ELSE NoOptions
      found == ConfigFor(table, pattern)
      code == LayoutCode(found.config.generateCode, options)
      s == StructureFor(found.config, pattern, options)
      t == SortedTokens(s.config)
  IN IF found.kind = "undefined"
       THEN [threw |-> TRUE, error |-> "Invalid pattern: \"" \o pattern \o "\"", table |-> table]
     ELSE IF found.kind = "inherited"
       THEN [threw |-> TRUE, error |-> "TypeError", table |-> table]
     ELSE [threw |-> FALSE,
           value |-> [pattern |-> pattern,
                      structure |-> s.structure,
                      components |-> t.config.components,
                      code |-> code,
                      tokens |-> t.tokens,
                      slots |-> t.config.slots,
                      usage |-> t.config.usage],
           table |-> [p \in DOMAIN table |-> IF p = pattern THEN t.config ELSE table[p]]]

(***************************************************************************)
(* search_components                                                       *)
(***************************************************************************)
\* component-specs.json: name, description and usage.when of each entry, in
\* the order of its keys
componentSpecs == <<
  [key |-> "button", name |-> "Button",
   description |-> "Interactive element for triggering actions and events",
   when |-> <<"Primary call-to-action", "Form submission", "Triggering dialogs or actions">>],
  [key |-> "input", name |-> "Input",
   description |-> "Text input field for user data entry",
   when |-> <<"Single-line text entry", "Form fields">>],
  [key |-> "card", name |-> "Card",
   description |-> "Container for grouping related content",
   when |-> <<"Displaying grouped information", "Dashboard widgets", "Product cards">>],
  [key |-> "select", name |-> "Select",
   description |-> "Dropdown selection component for choosing from a list of options",
   when |-> <<"Selecting from predefined options", "Form fields with limited choices">>],
  [key |-> "modal", name |-> "Modal",
   description |-> "Overlay dialog for focused interactions",
   when |-> <<"Confirmations", "Forms requiring focus", "Critical information">>] >>

\* queryLower.split(/\s+/).filter((t) => t.length > 0): the maximal runs of
\* characters that are not white space
RECURSIVE TermsFrom(_, _, _, _)
TermsFrom(s, i, term, acc) ==
  IF i > Len(s) THEN (IF term = "" THEN acc ELSE Append(acc, term))
  ELSE IF CharAt(s, i) \in WhiteSpace
    THEN TermsFrom(s, i + 1, "", IF term = "" THEN acc ELSE Append(acc, term))
  ELSE TermsFrom(s, i + 1, term \o CharAt(s, i), acc)

QueryTerms(query) == TermsFrom(ToLowerCase(query), 1, "", <<>>)

\* the lower-cased text of an entry that the terms are looked up in
Searchable(spec) ==
  ToLowerCase(spec.key \o " " \o spec.description \o " " \o Join(spec.when, " "))

\* matchedTerms.length / queryTerms.length as a fraction, 0 without terms
TermScore(spec, queryTerms) ==
  IF Len(queryTerms) > 0
    THEN [num |-> Cardinality({t \in 1..Len(queryTerms) :
                                 Includes(Searchable(spec), queryTerms[t])}),
          den |-> Len(queryTerms)]
    ELSE [num |-> 0, den |-> 1]

\* b.score - a.score <= 0 for the fractions a and b
ScoreAtLeast(a, b) == a.num * b.den >= b.num * a.den

\* sort((a, b) => b.score - a.score), a stable sort: x goes behind the last
\* entry whose score is not smaller
InsertByRelevance(sorted, x) ==
  LET keep == {i \in 1..Len(sorted) : ScoreAtLeast(sorted[i].score, x.score)}
      n == IF keep = {} THEN 0 ELSE CHOOSE i \in keep : \A j \in keep : j <= i
  IN SubSeq(sorted, 1, n) \o <<x>> \o SubSeq(sorted, n + 1, Len(sorted))

RECURSIVE SortByRelevanceFrom(_, _, _)
SortByRelevanceFrom(scored, i, acc) ==
  IF i > Len(scored) THEN acc
  ELSE SortByRelevanceFrom(scored, i + 1, InsertByRelevance(acc, scored[i]))

DefaultLimit == 10

\* a search that leaves out the entries in which not every term is found
searchComponentsAllTerms(input) ==
  LET limit == IF Has(input, "limit") THEN input.limit ELSE DefaultLimit
      queryTerms == QueryTerms(input.query)
      mapped == [i \in 1..Len(componentSpecs) |->
                   [name |-> componentSpecs[i].key,
                    displayName |-> componentSpecs[i].name,
                    description |-> componentSpecs[i].description,
                    usage |-> componentSpecs[i].when,
                    score |-> TermScore(componentSpecs[i], queryTerms)]]
      scored == SortByRelevanceFrom(
                  SelectSeq(mapped, LAMBDA r : r.score.num = r.score.den /\ r.score.num > 0),
                  1, <<>>)
      results == SubSeq(scored, 1, IF limit < Len(scored) THEN limit ELSE Len(scored))
  IN [threw |-> FALSE,
      value |-> [query |-> input.query, results |-> results, count |-> Len(results),
                 hasMore |-> Len(scored) > limit]]

\* searchComponents for a limit that is a positive whole number or absent
searchComponents(input) ==
  LET limit == IF Has(input, "limit") THEN input.limit ELSE DefaultLimit
      queryTerms == QueryTerms(input.query)
      mapped == [i \in 1..Len(componentSpecs) |->
                   [name |-> componentSpecs[i].key,
                    displayName |-> componentSpecs[i].name,
                    description |-> componentSpecs[i].description,
                    usage |-> componentSpecs[i].when,
                    score |-> TermScore(componentSpecs[i], queryTerms)]]
      scored == SortByRelevanceFrom(SelectSeq(mapped, LAMBDA r : r.score.num > 0), 1, <<>>)
      results == SubSeq(scored, 1, IF limit < Len(scored) THEN limit ELSE Len(scored))
  IN [threw |-> FALSE,
      value |-> [query |-> input.query, results |-> results, count |-> Len(results),
                 hasMore |-> Len(scored) > limit]]

(***************************************************************************)
(* Inputs of the tool calls                                                *)
(***************************************************************************)
Words ==
  {"login form", "Sign In", "user profile", "contact form", "nav", "navigation header",
   "modal", "settings page", "Email", "date name", "xyz", " ", "\t"}

Intents == {Join(ws, "") : ws \in UNION {[1..n -> Words] : n \in 0..MaxWords}}

MaxGenComponents == 3

\* component definitions handed to generateCode: the Card skeleton, members
\* of its sections, a component without a slot, one with a slot no bucket has
GenPool ==
  {Comp("Card", <<>>, "wrapper"),
   Comp("CardHeader", <<>>, "header"),
   CompC("CardTitle", <<>>, "header", "Sign In"),
   Comp("Input", <<Prop("type", Str("email"))>>, "content"),
   Comp("CardFooter", <<>>, "footer"),
   CompC("Button", <<Prop("variant", Str("default"))>>, "footer", "Go"),
   Unslotted("Button", <<Prop("variant", Str("ghost"))>>, "Home"),
   Comp("Badge", <<>>, "sidebar")}

GenLists == UNION {[1..n -> GenPool] : n \in 0..MaxGenComponents}

GenLayouts ==
  {StackColumn4, [type |-> "flex", direction |-> "row", gap |-> "4"]}

Contexts == {"page", "section", "component"}

MaxFieldWords == 2

\* words of an intent handed to extractFormFields: the triggers of the six
\* checks, in either case, and a word that triggers none
FieldWords == {"email", "Password", "name", "PHONE", "message", "comment", "date", "form"}

FieldIntents == {Join(ws, " ") : ws \in UNION {[1..n -> FieldWords] : n \in 0..MaxFieldWords}}

MaxTerms == 2

MaxLimit == 3

\* words of a search query: terms found in several entries, in one, in none,
\* in upper case, and white space alone
QueryWords == {"form", "DIALOG", "entry", "fields", "zzz", "", "\t"}

Queries == {Join(ws, " ") : ws \in UNION {[1..n -> QueryWords] : n \in 0..MaxTerms}}

\* the search inputs: a limit within the bounds of the tool's schema, or none
SearchInputs ==
  {[query |-> q] : q \in Queries}
    \cup {[query |-> q, limit |-> l] : q \in Queries, l \in 1..MaxLimit}

TokenNames == {"Button", "Input", "Card", "CardFooter", "Modal", "Foo", "constructor"}

NameLists == UNION {[1..n -> TokenNames] : n \in 0..MaxNames}

PatternNames ==
  {"form-layout", "split-view", "dashboard-grid", "modal-confirm",
   "list-with-actions", "hero-section", "empty-state"}

PatternInputs == PatternNames \cup {"not-a-real-pattern", "constructor", ""}

MaxColumnsInput == 7

OptionInputs ==
  {NoOptions}
  \cup {[columns |-> c] : c \in 0..MaxColumnsInput}
  \cup {[title |-> t] : t \in {"", "Overview"}}
  \cup {[title |-> "Delete", variant |-> v, columns |-> c] :
          v \in {"default", "destructive"}, c \in {0, 2}}
  \cup {[description |-> "About", primaryAction |-> "Go", secondaryAction |-> "Back"]}

\* component descriptors handed to validateAccessibility
ButtonNoName == [name |-> "Button", props |-> <<>>]

ButtonSubmit == [name |-> "Button", props |-> <<>>, children |-> Str("Submit")]

InputPlaceholderId ==
  [name |-> "Input", props |-> <<Prop("id", Str("email")), Prop("placeholder", Str("Email"))>>]

UnknownComponent == [name |-> "UnknownComponent", props |-> <<>>]

ComponentPool == {ButtonNoName, ButtonSubmit, InputPlaceholderId, UnknownComponent}

\* a prop that is absent, present with the empty string, or present with a value
Presence == {"absent", "empty", "set"}

MaybeProp(key, presence, value) ==
  CASE presence = "absent" -> <<>>
    [] presence = "empty" -> <<Prop(key, Str(""))>>
    [] presence = "set" -> <<Prop(key, value)>>

\* children that is no string: an array of child nodes
Arr(items) == [type |-> "array", val |-> items]

InputComponents ==
  {[name |-> "Input",
    props |-> MaybeProp("aria-label", a, Str("Email"))
              \o MaybeProp("aria-labelledby", l, Str("email-label"))
              \o MaybeProp("id", i, Str("email"))
              \o MaybeProp("placeholder", p, Str("Email"))] :
     a \in Presence, l \in {"absent", "set"}, i \in Presence, p \in {"absent", "set"}}

SelectComponents ==
  {[name |-> "Select",
    props |-> MaybeProp("aria-label", a, Str("Country"))
              \o MaybeProp("aria-labelledby", l, Str("country-label"))
              \o MaybeProp("id", i, Str("country"))] :
     a \in Presence, l \in {"absent", "set"}, i \in Presence}

ButtonChildren == {Str(""), Str(" "), Str("Submit"), Arr(<<"Icon">>)}

ButtonComponents ==
  {[name |-> "Button", props |-> MaybeProp("aria-label", a, Str("Close"))] : a \in Presence}
  \cup {[name |-> "Button", props |-> MaybeProp("aria-label", a, Str("Close")),
         children |-> c] : a \in Presence, c \in ButtonChildren}

ModalComponents ==
  {[name |-> "Modal.Content",
    props |-> MaybeProp("title", t, Str("Confirm"))
              \o MaybeProp("aria-label", a, Str("Confirm"))
              \o MaybeProp("aria-labelledby", l, Str("title-id"))
              \o MaybeProp("description", d, Str("Are you sure?"))
              \o MaybeProp("aria-describedby", b, Str("desc-id"))] :
     t \in Presence, a \in {"absent", "set"}, l \in {"absent", "set"},
     d \in Presence, b \in {"absent", "set"}}
  \cup {[name |-> "Modal", props |-> <<>>]}

AltValues ==
  {Str(""), Str("Golden sunset over mountains"), Str("Image of a sunset"),
   Str("A PICTURE OF mountains"), Str("Photo of a cat"), Num(0)}

ImageComponents ==
  {[name |-> "img", props |-> <<>>]}
  \cup {[name |-> "img", props |-> <<Prop("alt", v)>>] : v \in AltValues}

\* one component of each shape the five validators tell apart
RuleComponents ==
  InputComponents \cup SelectComponents \cup ButtonComponents
    \cup ModalComponents \cup ImageComponents

\* ten warnings and no error
TenWarnings == [i \in 1..10 |-> InputPlaceholderId]

ComponentLists ==
  UNION {[1..n -> ComponentPool] : n \in 0..MaxComponents}
    \cup {TenWarnings}
    \cup {<<c>> : c \in RuleComponents}

CodeInputs ==
  {"", " ", "hello", "<Input type=\"email\" />", "<Button>Submit</Button>",
   "<Button> </Button>", "<Input id=\"a\" placeholder=\"Name\" /><Button />",
   "<img alt=\"Image of cat\" />", "<Modal.Content title=\"T\">x</Modal.Content>",
   "<Button disabled={true} aria-label=\"Close\" />x</Button>", "<div><Select /></div>"}

ValidateContexts == {"form", "navigation", "content", "modal", "general"}

\* the inputs of validateAccessibility: neither field, code only, components
\* only, both; each with and without a context hint
ValidateInputsNoContext ==
  {[x \in {} |-> x]}
  \cup {[code |-> c] : c \in CodeInputs}
  \cup {[components |-> l] : l \in ComponentLists}
  \cup {[code |-> c, components |-> l] :
          c \in CodeInputs, l \in {<<>>, <<ButtonNoName>>, <<ButtonSubmit>>}}

WithContext(input, ctx) ==
  [k \in DOMAIN input \cup {"context"} |-> IF k = "context" THEN ctx ELSE input[k]]

(***************************************************************************)
(* The server: one tool call at a time against the two static tables       *)
(***************************************************************************)
Init ==
  /\ intentPatterns = InitialIntentPatterns
  /\ patterns = InitialPatterns
  /\ pc = "idle"
  /\ request = NoCall
  /\ result = NoResult
  /\ seen = [fields |-> FALSE, columns |-> FALSE]

MatchIntentCall ==
  /\ pc = "idle"
  /\ \E intent \in Intents :
       /\ request' = [op |-> "matchIntent", input |-> [intent |-> intent]]
       /\ result' = [threw |-> FALSE, value |-> matchIntent(intentPatterns, intent)]
       /\ pc' = "done"
       /\ UNCHANGED <<intentPatterns, patterns, seen>>

ComposeInterfaceCall ==
  /\ pc = "idle"
  /\ \E intent \in Intents, context \in Contexts :
       LET input == [intent |-> intent, context |-> context]
           out == composeInterface(intentPatterns, input)
       IN /\ request' = [op |-> "composeInterface", input |-> input]
          /\ result' = IF out.threw THEN [threw |-> TRUE, error |-> out.error]
                       ELSE [threw |-> FALSE, value |-> out.value]
          /\ intentPatterns' = out.table
          /\ pc' = "done"
          /\ UNCHANGED <<patterns, seen>>

ExtractFormFieldsCall ==
  /\ pc = "idle"
  /\ \E intent \in FieldIntents :
       /\ request' = [op |-> "extractFormFields", input |-> [intent |-> intent]]
       /\ result' = [threw |-> FALSE, value |-> extractFormFields(intent)]
       /\ pc' = "done"
       /\ UNCHANGED <<intentPatterns, patterns, seen>>

CollectTokensCall ==
  /\ pc = "idle"
  /\ \E names \in NameLists :
       LET components == [i \in 1..Len(names) |-> [name |-> names[i], props |-> <<>>]]
       IN /\ request' = [op |-> "collectTokens", input |-> components]
          /\ result' = collectTokens(components)
          /\ pc' = "done"
          /\ UNCHANGED <<intentPatterns, patterns, seen>>

GenerateCodeCall ==
  /\ pc = "idle"
  /\ \E layout \in GenLayouts, components \in GenLists, context \in Contexts :
       /\ request' = [op |-> "generateCode",
                      input |-> [layout |-> layout, components |-> components,
                                 context |-> context]]
       /\ result' = generateCode(layout, components, context)
       /\ pc' = "done"
       /\ UNCHANGED <<intentPatterns, patterns, seen>>

SearchComponentsCall ==
  /\ pc = "idle"
  /\ \E input \in SearchInputs :
       /\ request' = [op |-> "searchComponents", input |-> input]
       /\ result' = searchComponents(input)
       /\ pc' = "done"
       /\ UNCHANGED <<intentPatterns, patterns, seen>>

GetLayoutPatternCall ==
  /\ pc = "idle"
  /\ \E pattern \in PatternInputs, options \in OptionInputs, hasOptions \in BOOLEAN :
       LET input == IF hasOptions THEN [pattern |-> pattern, options |-> options]
                    ELSE [pattern |-> pattern]
           out == getLayoutPattern(patterns, input)
       IN /\ hasOptions \/ options = NoOptions
          /\ request' = [op |-> "getLayoutPattern", input |-> input]
          /\ result' = IF out.threw THEN [threw |-> TRUE, error |-> out.error]
                       ELSE [threw |-> FALSE, value |-> out.value]
          /\ patterns' = out.table
          /\ pc' = "done"
          /\ UNCHANGED <<intentPatterns, seen>>

\* a handler that, given the context form, audits the form controls only
ValidateAccessibilityCallContextual ==
  /\ pc = "idle"
  /\ \E base \in ValidateInputsNoContext, ctx \in ValidateContexts, hasContext \in BOOLEAN :
       LET input == IF hasContext THEN WithContext(base, ctx) ELSE base
           narrowed == IF hasContext /\ ctx = "form" /\ Has(input, "components")
                         THEN [input EXCEPT !.components =
                                 SelectSeq(@, LAMBDA c : c.name \in {"Input", "Select"})]
                         ELSE input
       IN /\ request' = [op |-> "validateAccessibility", input |-> input]
          /\ result' = validateAccessibility(narrowed)
          /\ pc' = "done"
          /\ UNCHANGED <<intentPatterns, patterns, seen>>

ValidateAccessibilityCall ==
  /\ pc = "idle"
  /\ \E base \in ValidateInputsNoContext, ctx \in ValidateContexts, hasContext \in BOOLEAN :
       LET input == IF hasContext THEN WithContext(base, ctx) ELSE base
       IN /\ request' = [op |-> "validateAccessibility", input |-> input]
          /\ result' = validateAccessibility(input)
          /\ pc' = "done"
          /\ UNCHANGED <<intentPatterns, patterns, seen>>

\* the handler hands the outcome to the transport and the server waits for
\* the next call
Return ==
  /\ pc = "done"
  /\ pc' = "idle"
  /\ request' = NoCall
  /\ result' = NoResult
  /\ UNCHANGED <<intentPatterns, patterns, seen>>

\* the call that just completed composed the form pattern with detected fields
ComposedFormFields ==
  /\ request.op = "composeInterface"
  /\ ~result.threw
  /\ \E i \in 1..Len(result.value.components) :
       result.value.components[i] \notin Range(InitialIntentPatterns[3].components)
  /\ extractFormFields(request.input.intent) # <<>>

\* the call that just completed returned dashboard-grid with overridden columns
OverrodeColumns ==
  /\ request.op = "getLayoutPattern"
  /\ ~result.threw
  /\ request.input.pattern = "dashboard-grid"
  /\ result.value.structure.columns # InitialPatterns["dashboard-grid"].structure.columns

\* Return, remembering in seen which kinds of call have completed so far
ReturnTracked ==
  /\ pc = "done"
  /\ pc' = "idle"
  /\ seen' = [fields |-> seen.fields \/ ComposedFormFields,
              columns |-> seen.columns \/ OverrodeColumns]
  /\ request' = NoCall
  /\ result' = NoResult
  /\ UNCHANGED <<intentPatterns, patterns>>

NextFrame ==
  \/ ComposeInterfaceCall
  \/ GetLayoutPatternCall
  \/ ReturnTracked

\* calls to composeInterface and getLayoutPattern in any order, with the
\* history of completed calls
SpecFrame == Init /\ [][NextFrame]_vars

Next ==
  \/ MatchIntentCall
  \/ ComposeInterfaceCall
  \/ ExtractFormFieldsCall
  \/ CollectTokensCall
  \/ GenerateCodeCall
  \/ SearchComponentsCall
  \/ GetLayoutPatternCall
  \/ ValidateAccessibilityCall
  \/ Return

Spec == Init /\ [][Next]_vars

(***************************************************************************)
(* Properties                                                              *)
(***************************************************************************)
Done(op) == pc = "done" /\ request.op = op

Returned(op) == Done(op) /\ ~result.threw

\* number of keywords of the i-th declared pattern that occur in the lower-cased intent
KeywordHits(i, intent) ==
  Cardinality({k \in 1..Len(InitialIntentPatterns[i].keywords) :
                 Includes(ToLowerCase(intent), InitialIntentPatterns[i].keywords[k])})

PatternIndexes == 1..Len(InitialIntentPatterns)

\* C1: matchIntent returns the pattern with the most keywords occurring in the
\* lower-cased intent, the earliest declared one among those that share the
\* highest count, and null exactly when no keyword of any pattern occurs.
C1_MatchIntentBestEarliest ==
  Done("matchIntent") =>
    LET intent == request.input.intent
    IN IF \A i \in PatternIndexes : KeywordHits(i, intent) = 0
         THEN result.value = Null
         ELSE \E i \in PatternIndexes :
                /\ result.value = InitialIntentPatterns[i]
                /\ \A j \in PatternIndexes : KeywordHits(j, intent) <= KeywordHits(i, intent)
                /\ \A j \in PatternIndexes :
                     j < i => KeywordHits(j, intent) < KeywordHits(i, intent)

\* two patterns share the highest count and the earlier one was returned
C1_Witness ==
  /\ Done("matchIntent")
  /\ \E i, j \in PatternIndexes :
       /\ i < j
       /\ KeywordHits(i, request.input.intent) > 0
       /\ KeywordHits(i, request.input.intent) = KeywordHits(j, request.input.intent)
       /\ \A k \in PatternIndexes :
            KeywordHits(k, request.input.intent) <= KeywordHits(i, request.input.intent)
       /\ result.value = InitialIntentPatterns[i]

\* the intent is empty or consists of white space only
IsBlank(intent) == \A i \in 1..Len(intent) : CharAt(intent, i) \in WhiteSpace

\* C2: composeInterface throws exactly when the intent is empty or
\* whitespace-only; for every other intent and every context it returns a payload.
C2_ThrowsIffBlank ==
  Done("composeInterface") => (result.threw <=> IsBlank(request.input.intent))

\* a whitespace-only intent that is not empty was rejected
C2_Witness ==
  /\ Done("composeInterface")
  /\ result.threw
  /\ Len(request.input.intent) > 0

\* some keyword of some pattern occurs in the lower-cased intent
Matches(intent) == \E i \in PatternIndexes : KeywordHits(i, intent) > 0

\* C3: for a non-blank intent that matches no pattern the payload has layout
\* stack/column, no components, no tokens, a code string that is a // comment
\* and a non-empty suggestions list containing "login form"; suggestions is
\* present if and only if no pattern matched.
C3_NoMatchPayload ==
  Returned("composeInterface") =>
    /\ Has(result.value, "suggestions") <=> ~Matches(request.input.intent)
    /\ ~Matches(request.input.intent) =>
         /\ result.value.layout = [type |-> "stack", direction |-> "column"]
         /\ result.value.components = <<>>
         /\ result.value.tokens = <<>>
         /\ StartsWith(result.value.code, "//")
         /\ FirstIndexOf(result.value.code, "\n", 1) = 0
         /\ Len(result.value.suggestions) > 0
         /\ "login form" \in Range(result.value.suggestions)

\* a non-blank intent that matches nothing was answered with suggestions
C3_Witness ==
  /\ Returned("composeInterface")
  /\ ~Matches(request.input.intent)
  /\ Has(result.value, "suggestions")

IssueCount(issues, severity) ==
  Cardinality({i \in 1..Len(issues) : issues[i].severity = severity})

ProbeIssue(severity) == Issue(severity, "probe", "", "probe", "", "")

\* C4: score = max(0, 100 - 25*errors - 10*warnings - 2*infos), so it lies in
\* 0..100, one more issue of any severity never raises it, and five Buttons
\* without an accessible name score exactly 0.
C4_ScoreFormula ==
  Returned("validateAccessibility") =>
    LET issues == result.value.issues
        raw == 100 - 25 * IssueCount(issues, "error") - 10 * IssueCount(issues, "warning")
                   - 2 * IssueCount(issues, "info")
    IN /\ result.value.score = (IF raw < 0 THEN 0 ELSE raw)
       /\ result.value.score \in 0..100
       /\ \A severity \in {"error", "warning", "info"} :
            calculateScore(Append(issues, ProbeIssue(severity))) <= result.value.score
       /\ (Has(request.input, "components")
             /\ request.input.components = [i \in 1..5 |-> ButtonNoName])
            => result.value.score = 0

\* five Buttons without a name: 125 points of penalty, score 0
C4_Witness ==
  /\ Returned("validateAccessibility")
  /\ Has(request.input, "components")
  /\ request.input.components = [i \in 1..5 |-> ButtonNoName]
  /\ result.value.score = 0

\* C5: valid is true if and only if no issue has severity error; warnings
\* lower the score without making valid false.
C5_ValidIffNoError ==
  Returned("validateAccessibility") =>
    (result.value.valid <=>
       ~\E i \in 1..Len(result.value.issues) : result.value.issues[i].severity = "error")

\* ten warnings: valid although the score is 0
C5_Witness ==
  /\ Returned("validateAccessibility")
  /\ result.value.valid
  /\ result.value.score = 0
  /\ Len(result.value.issues) = 10

\* C6 as stated: validateAccessibility throws when neither code nor components
\* is supplied and only then; a supplied code string, even an empty one,
\* yields a result.
C6_ThrowsIffNeitherSupplied ==
  Done("validateAccessibility") =>
    (result.threw <=> (~Has(request.input, "code") /\ ~Has(request.input, "components")))

IsSortedAscending(list) ==
  \A i \in 1..(Len(list) - 1) : StrLess(list[i], list[i + 1])

\* the tokens the table maps to the component names present
MappedTokens(components) ==
  UNION {Range(tokenMap[components[i].name]) :
           i \in {j \in 1..Len(components) : components[j].name \in DOMAIN tokenMap}}

\* C7 as stated: for every component list collectTokens returns a list sorted
\* ascending without duplicates holding exactly the tokens mapped to the names
\* present; a name outside the token table adds nothing and causes no error,
\* whatever the name is.
C7_CollectTokensTotal ==
  Done("collectTokens") =>
    /\ ~result.threw
    /\ IsSortedAscending(result.value)
    /\ Range(result.value) = MappedTokens(request.input)

\* C8: getLayoutPattern throws for every pattern name outside the seven fixed
\* names and returns, for each of the seven, a result whose pattern field is
\* the requested name.
C8_UnknownPatternThrows ==
  Done("getLayoutPattern") =>
    IF request.input.pattern \in PatternNames
      THEN ~result.threw /\ result.value.pattern = request.input.pattern
      ELSE result.threw

\* a name outside the seven was rejected
C8_Witness ==
  /\ Done("getLayoutPattern")
  /\ request.input.pattern \notin PatternNames
  /\ result.threw

SuppliedColumns(input) ==
  IF Has(input, "options") /\ "columns" \in DOMAIN input.options
    THEN input.options.columns ELSE 3

\* C9 as stated: for dashboard-grid structure.columns equals options.columns
\* whenever it is supplied and the code holds the class grid-cols-<columns>;
\* both are 3 when it is not supplied.
C9_ColumnsOverride ==
  (Returned("getLayoutPattern") /\ request.input.pattern = "dashboard-grid") =>
    /\ result.value.structure.columns = SuppliedColumns(request.input)
    /\ Includes(result.value.code,
                "grid-cols-" \o NumToString(SuppliedColumns(request.input)) \o " ")

\* C10: after any sequence of calls to composeInterface and getLayoutPattern the
\* two static tables are what they were at start, and the outcome of each call
\* is the one the call has against the initial tables: a form composed without
\* detected fields has the form pattern's own component list, and
\* dashboard-grid without options has three columns, whatever was called before.
C10_TablesNeverMutated ==
  /\ intentPatterns = InitialIntentPatterns
  /\ patterns = InitialPatterns
  /\ Returned("composeInterface") =>
       result.value = composeInterface(InitialIntentPatterns, request.input).value
  /\ Returned("getLayoutPattern") =>
       result.value = getLayoutPattern(InitialPatterns, request.input).value
  /\ (Returned("composeInterface")
        /\ MatchIndex(InitialIntentPatterns, request.input.intent) = 3
        /\ extractFormFields(request.input.intent) = <<>>) =>
       result.value.components = InitialIntentPatterns[3].components
  /\ (Returned("getLayoutPattern")
        /\ request.input.pattern = "dashboard-grid"
        /\ ~Has(request.input, "options")) =>
       result.value.structure.columns = 3

\* after a form was composed with detected fields and after a columns
\* override, dashboard-grid without options still has three columns
C10_Witness ==
  /\ seen.fields
  /\ seen.columns
  /\ Returned("getLayoutPattern")
  /\ request.input.pattern = "dashboard-grid"
  /\ ~Has(request.input, "options")
  /\ result.value.structure.columns = 3

\* C11: when components is supplied the outcome of validateAccessibility does
\* not depend on code: it never throws and equals the outcome of the call that
\* supplies the same components and no code.
C11_ComponentsTakePrecedence ==
  (Done("validateAccessibility") /\ Has(request.input, "components")) =>
    /\ ~result.threw
    /\ result = validateAccessibility([components |-> request.input.components])
    /\ result.value.issues = IssuesFrom(request.input.components, 1)

\* code that parses to an Input without a label was supplied together with a
\* well-named Button, and the report is clean
C11_Witness ==
  /\ Returned("validateAccessibility")
  /\ Has(request.input, "components")
  /\ Has(request.input, "code")
  /\ request.input.components = <<ButtonSubmit>>
  /\ IssuesFrom(parseJSXToComponents(request.input.code), 1) # <<>>
  /\ result.value.issues = <<>>

\* the code and the component list of a completed generateCode, called
\* directly or by composeInterface for a matched intent
Generated ==
  IF request.op = "generateCode"
    THEN [code |-> result.value, components |-> request.input.components,
          layout |-> request.input.layout]
    ELSE [code |-> result.value.code, components |-> result.value.components,
          layout |-> result.value.layout]

HasGenerated ==
  \/ Returned("generateCode")
  \/ Returned("composeInterface") /\ Matches(request.input.intent)

\* the lines of the code without their indentation
CodeLines(code) == [i \in DOMAIN Split(code, "\n") |-> TrimStart(Split(code, "\n")[i])]

InSlot(components, slot) ==
  SelectSeq(components, LAMBDA c : Has(c, "slot") /\ c.slot = slot)

WrapperNamed(components, name) ==
  \E i \in 1..Len(components) :
    /\ Has(components[i], "slot")
    /\ components[i].slot = "wrapper"
    /\ components[i].name = name

\* the members of a bucket the section shows, rendered, in input order
Shown(members, placeholder) ==
  LET kept == SelectSeq(members, LAMBDA c : c.name # placeholder)
  IN [i \in 1..Len(kept) |-> renderComponent(kept[i])]

IndexOfLine(lines, line) ==
  IF \E i \in 1..Len(lines) : lines[i] = line
    THEN CHOOSE i \in 1..Len(lines) : lines[i] = line /\ \A j \in 1..(i - 1) : lines[j] # line
    ELSE 0

Occurrences(lines, line) == Cardinality({i \in 1..Len(lines) : lines[i] = line})

\* the lines between the opening and the closing line of a section are the
\* shown members of the bucket, and the section lies inside <Card> ... </Card>
SectionHolds(lines, members, placeholder, open, close) ==
  Len(members) > 0 =>
    LET from == IndexOfLine(lines, open)
        to == IndexOfLine(lines, close)
    IN /\ IndexOfLine(lines, "<Card>") > 0
       /\ IndexOfLine(lines, "<Card>") < from
       /\ from < to
       /\ to < IndexOfLine(lines, "</Card>")
       /\ SubSeq(lines, from + 1, to - 1) = Shown(members, placeholder)

\* C12: with a Card in the wrapper bucket the code is <Card> ... </Card> in
\* which every member of the header, content and footer bucket other than the
\* placeholder of its own section is rendered exactly once, in input order,
\* inside CardHeader, CardContent and CardFooter; 'login form' in a section
\* has layout stack/column and code with <Card>, the two inputs and </Card>.
C12_CardSections ==
  /\ (HasGenerated /\ WrapperNamed(Generated.components, "Card")) =>
       LET lines == CodeLines(Generated.code)
           header == InSlot(Generated.components, "header")
           content == InSlot(Generated.components, "content")
           footer == InSlot(Generated.components, "footer")
           shown == Shown(header, "CardHeader") \o Shown(content, "CardContent")
                      \o Shown(footer, "CardFooter")
       IN /\ SectionHolds(lines, header, "CardHeader", "<CardHeader>", "</CardHeader>")
          /\ SectionHolds(lines, content, "CardContent",
                          "<CardContent className=\"flex flex-col gap-4\">", "</CardContent>")
          /\ SectionHolds(lines, footer, "CardFooter", "<CardFooter>", "</CardFooter>")
          /\ \A i \in 1..Len(shown) :
               Occurrences(lines, shown[i]) = Occurrences(shown, shown[i])
  /\ (Returned("composeInterface")
        /\ request.input = [intent |-> "login form", context |-> "section"]) =>
       /\ result.value.layout.type = "stack"
       /\ result.value.layout.direction = "column"
       /\ Includes(result.value.code, "<Card>")
       /\ Includes(result.value.code, "type=\"email\"")
       /\ Includes(result.value.code, "type=\"password\"")
       /\ Includes(result.value.code, "</Card>")

\* the login form in a section: a Card whose content section holds the two inputs
C12_Witness ==
  /\ Returned("composeInterface")
  /\ request.input = [intent |-> "login form", context |-> "section"]
  /\ WrapperNamed(result.value.components, "Card")
  /\ Len(Shown(InSlot(result.value.components, "content"), "CardContent")) = 2

BucketNames == {"wrapper", "header", "content", "footer", "trigger"}

\* the components of the unslotted bucket, which include those lacking a slot
FlatMembers(components) ==
  SelectSeq(components, LAMBDA c :
    ~Has(c, "slot") \/ c.slot = "" \/ c.slot \notin BucketNames)

ContainerLine(layout) ==
  IF layout.type = "flex"
    THEN "<div className=\"flex "
         \o (IF Has(layout, "direction") /\ layout.direction = "row"
               THEN "flex-row" ELSE "flex-col")
         \o (IF Has(layout, "gap") THEN " gap-" \o layout.gap ELSE "")
         \o "\">"
    ELSE "<div className=\"\">"

\* C13 as stated: without a Card or Modal wrapper the code is one container
\* (class flex flex-row|flex-col gap-N for a flex layout) whose children are
\* the unslotted components, each rendered exactly once, in input order; for
\* 'navigation header' the layout is flex/row and the code holds exactly the
\* three ghost Buttons of the pattern.
C13_FlatLayoutOnce ==
  /\ (HasGenerated
        /\ ~WrapperNamed(Generated.components, "Card")
        /\ ~WrapperNamed(Generated.components, "Modal")) =>
       LET lines == CodeLines(Generated.code)
           from == IndexOfLine(lines, ContainerLine(Generated.layout))
           children == Shown(FlatMembers(Generated.components), "")
       IN /\ from > 0
          /\ from + Len(children) + 1 <= Len(lines)
          /\ SubSeq(lines, from + 1, from + Len(children)) = children
          /\ lines[from + Len(children) + 1] = "</div>"
  /\ (Returned("composeInterface") /\ request.input.intent = "navigation header") =>
       /\ result.value.layout.type = "flex"
       /\ result.value.layout.direction = "row"
       /\ Cardinality({i \in DOMAIN CodeLines(result.value.code) :
                         StartsWith(CodeLines(result.value.code)[i],
                                    "<Button variant=\"ghost\"")}) = 3

\* the components a completed validateAccessibility has validated
Validated ==
  IF Has(request.input, "components") THEN request.input.components
  ELSE parseJSXToComponents(request.input.code)

RuleCount(rule) ==
  Cardinality({i \in 1..Len(result.value.issues) : result.value.issues[i].rule = rule})

RuleSeverity(rule) ==
  {result.value.issues[i].severity :
     i \in {j \in 1..Len(result.value.issues) : result.value.issues[j].rule = rule}}

CountWhere(components, P(_)) ==
  Cardinality({i \in 1..Len(components) : P(components[i])})

\* the attribute is present among the props, whatever its value
Present(component, key) ==
  \E i \in 1..Len(component.props) : component.props[i].k = key

\* the attribute is present with a value other than "", false and 0
NonEmpty(component, key) ==
  \E i \in 1..Len(component.props) :
    /\ component.props[i].k = key
    /\ component.props[i].v \notin {Str(""), Bool(FALSE), Num(0)}

\* the rules of Input and Select, for a given reading of 'has the attribute'
InputSelectRules(HasAttr(_, _)) ==
  Returned("validateAccessibility") =>
    LET Unlabelled(c) ==
          ~HasAttr(c, "aria-label") /\ ~HasAttr(c, "aria-labelledby") /\ ~HasAttr(c, "id")
        NeedsLabel(c) == c.name = "Input" /\ Unlabelled(c)
        PlaceholderOnly(c) ==
          /\ c.name = "Input"
          /\ HasAttr(c, "placeholder") /\ HasAttr(c, "id")
          /\ ~HasAttr(c, "aria-label") /\ ~HasAttr(c, "aria-labelledby")
        SelectNeedsLabel(c) == c.name = "Select" /\ Unlabelled(c)
        issues == result.value.issues
    IN /\ RuleCount("input-needs-label") = CountWhere(Validated, NeedsLabel)
       /\ RuleCount("placeholder-not-label") = CountWhere(Validated, PlaceholderOnly)
       /\ RuleCount("select-needs-label") = CountWhere(Validated, SelectNeedsLabel)
       /\ RuleSeverity("input-needs-label") \subseteq {"error"}
       /\ RuleSeverity("placeholder-not-label") \subseteq {"warning"}
       /\ RuleSeverity("select-needs-label") \subseteq {"error"}
       /\ \A i \in 1..Len(issues) :
            /\ issues[i].component = "Input" =>
                 issues[i].rule \in {"input-needs-label", "placeholder-not-label"}
            /\ issues[i].component = "Select" => issues[i].rule = "select-needs-label"
       /\ Validated = <<[name |-> "Input", props |-> <<>>]>> =>
            Len(issues) = 1 /\ result.value.score = 75

\* C14 as stated: input-needs-label iff the Input has none of aria-label,
\* aria-labelledby and id; placeholder-not-label iff it has a placeholder and
\* an id and neither aria-label nor aria-labelledby; select-needs-label iff
\* the Select has none of the three; no other issue for either type; an Input
\* with empty props has one issue and score 75. Has = the attribute is present.
C14_InputSelectRulesPresent == InputSelectRules(Present)

\* C14 amended: the same rules where an attribute counts only when its value
\* is truthy (not "", false or 0).
C14_InputSelectRulesNonEmpty == InputSelectRules(NonEmpty)

\* an Input whose id is present but empty was reported as unlabelled
C14_Witness ==
  /\ Returned("validateAccessibility")
  /\ Len(Validated) = 1
  /\ Validated[1].name = "Input"
  /\ Present(Validated[1], "id")
  /\ ~NonEmpty(Validated[1], "id")
  /\ RuleCount("input-needs-label") = 1

\* children is absent, empty or whitespace-only
BlankChildren(c) ==
  \/ ~Has(c, "children")
  \/ c.children.type = "string" /\ IsBlank(c.children.val)

\* children is a string with a character that is no white space
TextChildren(c) ==
  Has(c, "children") /\ c.children.type = "string" /\ ~IsBlank(c.children.val)

\* the rule of Button, for a given reading of 'has an aria-label' and of
\* 'has no text'
ButtonRule(HasAttr(_, _), NoText(_)) ==
  Returned("validateAccessibility") =>
    LET NeedsName(c) == c.name = "Button" /\ ~HasAttr(c, "aria-label") /\ NoText(c)
        issues == result.value.issues
    IN /\ RuleCount("button-needs-name") = CountWhere(Validated, NeedsName)
       /\ RuleSeverity("button-needs-name") \subseteq {"error"}
       /\ \A i \in 1..Len(issues) :
            issues[i].component = "Button" => issues[i].rule = "button-needs-name"

\* C15 as stated: button-needs-name iff the Button has no aria-label and its
\* children is absent, empty or whitespace-only; a Button with non-blank text
\* children or with an aria-label yields no issue.
C15_ButtonRuleAsStated == ButtonRule(Present, BlankChildren)

NoTextChildren(c) == ~TextChildren(c)

\* C15 amended: button-needs-name iff the Button has no truthy aria-label and
\* its children is not a string with a non-whitespace character (absent,
\* empty, whitespace-only, or not a string at all).
C15_ButtonRuleTextOnly == ButtonRule(NonEmpty, NoTextChildren)

\* a Button whose aria-label is present but empty, and which has no text, was
\* reported as nameless
C15_Witness ==
  /\ Returned("validateAccessibility")
  /\ Len(Validated) = 1
  /\ Validated[1].name = "Button"
  /\ Present(Validated[1], "aria-label")
  /\ ~NonEmpty(Validated[1], "aria-label")
  /\ BlankChildren(Validated[1])
  /\ RuleCount("button-needs-name") = 1

\* the rules of Modal.Content, for a given reading of 'is present'
ModalRules(HasAttr(_, _)) ==
  Returned("validateAccessibility") =>
    LET Labelled(c) ==
          HasAttr(c, "title") \/ HasAttr(c, "aria-label") \/ HasAttr(c, "aria-labelledby")
        NeedsLabel(c) == c.name = "Modal.Content" /\ ~Labelled(c)
        NeedsDescription(c) ==
          /\ c.name = "Modal.Content"
          /\ Labelled(c)
          /\ ~HasAttr(c, "description") /\ ~HasAttr(c, "aria-describedby")
        issues == result.value.issues
    IN /\ RuleCount("modal-needs-label") = CountWhere(Validated, NeedsLabel)
       /\ RuleCount("modal-needs-description") = CountWhere(Validated, NeedsDescription)
       /\ RuleSeverity("modal-needs-label") \subseteq {"error"}
       /\ RuleSeverity("modal-needs-description") \subseteq {"warning"}
       /\ (\A i \in 1..Len(Validated) : Validated[i].name = "Modal") => issues = <<>>

\* C16 as stated: modal-needs-label iff none of title, aria-label and
\* aria-labelledby is present; modal-needs-description iff one of them is
\* present and both description and aria-describedby are absent; a component
\* named Modal is subject to no rule.
C16_ModalRulesPresent == ModalRules(Present)

\* C16 amended: the same rules where an attribute counts as present only
\* when its value is truthy (not "", false or 0).
C16_ModalRulesNonEmpty == ModalRules(NonEmpty)

\* a Modal.Content whose title is present but empty was reported as unlabelled
C16_Witness ==
  /\ Returned("validateAccessibility")
  /\ Len(Validated) = 1
  /\ Validated[1].name = "Modal.Content"
  /\ Present(Validated[1], "title")
  /\ ~NonEmpty(Validated[1], "title")
  /\ RuleCount("modal-needs-label") = 1
  /\ RuleCount("modal-needs-description") = 0

\* the alt text of the image, when it is a non-empty string, in lower case
AltText(c) ==
  LET i == CHOOSE j \in 1..Len(c.props) : c.props[j].k = "alt"
  IN ToLowerCase(c.props[i].v.val)

HasAltText(c) ==
  \E i \in 1..Len(c.props) :
    /\ c.props[i].k = "alt"
    /\ c.props[i].v.type = "string"
    /\ c.props[i].v.val # ""

\* the rules of img, for a given set of redundant phrases
ImageRules(phrases) ==
  Returned("validateAccessibility") =>
    LET NeedsAlt(c) == c.name = "img" /\ ~Present(c, "alt")
        Redundant(c) ==
          /\ c.name = "img"
          /\ HasAltText(c)
          /\ \E p \in phrases : Includes(AltText(c), p)
        issues == result.value.issues
    IN /\ RuleCount("img-needs-alt") = CountWhere(Validated, NeedsAlt)
       /\ RuleCount("redundant-alt") = CountWhere(Validated, Redundant)
       /\ RuleSeverity("img-needs-alt") \subseteq {"error"}
       /\ RuleSeverity("redundant-alt") \subseteq {"warning"}
       /\ Validated = <<[name |-> "img", props |-> <<Prop("alt", Str(""))>>]>> =>
            issues = <<>>

\* C17 as stated: img-needs-alt iff the alt prop is entirely absent (alt=""
\* passes with no issue); redundant-alt iff alt is a non-empty string whose
\* lower-cased text contains "image of" or "picture of".
C17_ImageRulesTwoPhrases == ImageRules({"image of", "picture of"})

\* C17 amended: redundant-alt iff alt is a non-empty string whose lower-cased
\* text contains "image of", "picture of" or "photo of".
C17_ImageRulesThreePhrases == ImageRules({"image of", "picture of", "photo of"})

\* an alt text with 'photo of' was reported as redundant
C17_Witness ==
  /\ Returned("validateAccessibility")
  /\ Len(Validated) = 1
  /\ Validated[1].name = "img"
  /\ HasAltText(Validated[1])
  /\ Includes(AltText(Validated[1]), "photo of")
  /\ RuleCount("redundant-alt") = 1

AuditedNames == {"Input", "Button", "Modal.Content", "Select", "img"}

\* the list without the components no rule applies to
Audited(components) == SelectSeq(components, LAMBDA c : c.name \in AuditedNames)

PrimaryRuleOf ==
  [n \in AuditedNames |->
     CASE n = "Button" -> "button-needs-name"
       [] n = "Input" -> "input-needs-label"
       [] n = "Modal.Content" -> "modal-needs-label"
       [] n = "Select" -> "select-needs-label"
       [] n = "img" -> "img-needs-alt"]

WarningRules == {"placeholder-not-label", "modal-needs-description", "redundant-alt"}

\* position of the first component of the type in the validated list, 0 if none
FirstOfType(name) ==
  IF \E i \in 1..Len(Validated) : Validated[i].name = name
    THEN CHOOSE i \in 1..Len(Validated) :
           Validated[i].name = name /\ \A j \in 1..(i - 1) : Validated[j].name # name
    ELSE 0

TypeOfRule(rule) == CHOOSE n \in AuditedNames : PrimaryRuleOf[n] = rule

\* C19: passedRules holds a primary rule iff a component of its type is in the
\* input and the rule fired for none; it has no duplicates, follows the order
\* of the first component of each qualifying type, holds no warning rule, and
\* shares no rule id with issues.
C19_PassedRules ==
  Returned("validateAccessibility") =>
    LET passed == result.value.passedRules
        issues == result.value.issues
    IN /\ \A n \in AuditedNames :
            PrimaryRuleOf[n] \in Range(passed)
              <=> (FirstOfType(n) > 0 /\ RuleCount(PrimaryRuleOf[n]) = 0)
       /\ Range(passed) \subseteq Range(PrimaryRuleOf)
       /\ Range(passed) \cap WarningRules = {}
       /\ Cardinality(Range(passed)) = Len(passed)
       /\ \A i, j \in 1..Len(passed) :
            i < j => FirstOfType(TypeOfRule(passed[i])) < FirstOfType(TypeOfRule(passed[j]))
       /\ Range(passed) \cap {issues[i].rule : i \in 1..Len(issues)} = {}

\* two Inputs and a Button that pass their primary rules while a warning is
\* raised: two passed rules, the Input's first
C19_Witness ==
  /\ Returned("validateAccessibility")
  /\ Len(Validated) >= 3
  /\ result.value.passedRules = <<"input-needs-label", "button-needs-name">>
  /\ RuleCount("placeholder-not-label") >= 2

\* number of reported issues of a severity
Reported(severity) ==
  LET issues == result.value.issues
  IN Cardinality({i \in 1..Len(issues) : issues[i].severity = severity})

\* a count with its noun, plural exactly when the count exceeds one
Counted(n, noun) == NumToString(n) \o " " \o noun \o (IF n > 1 THEN "s" ELSE "")

SuccessSummary == "All accessibility checks passed. Score: 100/100"

\* C20: the summary is the fixed success string, which contains "100", iff
\* there are no issues; otherwise it gives the error count and the warning
\* count, each left out when zero, plural exactly when above one, joined by
\* "and", followed by the numeric score.
C20_Summary ==
  Returned("validateAccessibility") =>
    LET summary == result.value.summary
        errors == Reported("error")
        warnings == Reported("warning")
        tail == ". Score: " \o NumToString(result.value.score) \o "/100"
    IN /\ Includes(SuccessSummary, "100")
       /\ (summary = SuccessSummary) <=> (result.value.issues = <<>>)
       /\ (errors > 0 /\ warnings = 0) =>
            summary = "Found " \o Counted(errors, "error") \o tail
       /\ (errors = 0 /\ warnings > 0) =>
            summary = "Found " \o Counted(warnings, "warning") \o tail
       /\ (errors > 0 /\ warnings > 0) =>
            summary = "Found " \o Counted(errors, "error") \o " and "
                        \o Counted(warnings, "warning") \o tail

\* one error and two warnings: a singular and a plural joined by "and"
C20_Witness ==
  /\ Returned("validateAccessibility")
  /\ Reported("error") = 1
  /\ Reported("warning") = 2
  /\ StartsWith(result.value.summary, "Found 1 error and 2 warnings. Score: ")

\* the code composeInterface returns for the intent of the completed call in
\* another context
CodeInContext(context) ==
  composeInterface(intentPatterns,
                   [intent |-> request.input.intent, context |-> context]).value.code

PageOpenLine == "<div className=\"min-h-screen bg-background p-8\">"

\* every line of the code with one more indent level
IndentedLines(code) ==
  LET lines == Split(code, "\n")
  IN [i \in 1..Len(lines) |-> "  " \o lines[i]]

\* C21: for context page and a matched pattern the code is the opening line
\* of the outer container, the code of context section with every line
\* indented one more level, and the closing line of the container.
C21_PageWrapsSection ==
  (Returned("composeInterface") /\ Matches(request.input.intent)
     /\ request.input.context = "page") =>
    result.value.code
      = Join(<<PageOpenLine>> \o IndentedLines(CodeInContext("section")) \o <<"</div>">>, "\n")

\* the declared pattern with the keyword form
FormPattern ==
  CHOOSE i \in PatternIndexes : "form" \in Range(InitialIntentPatterns[i].keywords)

\* position of the first component with name CardContent and slot content
FirstCardContent(components) ==
  CHOOSE k \in 1..Len(components) :
    /\ components[k].name = "CardContent" /\ Has(components[k], "slot")
    /\ components[k].slot = "content"
    /\ \A j \in 1..(k - 1) :
         ~(components[j].name = "CardContent" /\ Has(components[j], "slot")
             /\ components[j].slot = "content")

\* C22: for the form pattern one Input with slot content is inserted per
\* detected field kind, in detection order, right after the first component
\* with name CardContent and slot content, the other components keeping their
\* relative order; for every other pattern the returned list is the pattern's
\* static list, whatever field words the intent holds.
C22_FieldInsertion ==
  (Returned("composeInterface") /\ Matches(request.input.intent)) =>
    LET idx == MatchIndex(InitialIntentPatterns, request.input.intent)
        static == InitialIntentPatterns[idx].components
        got == result.value.components
        fields == extractFormFields(request.input.intent)
        k == FirstCardContent(static)
    IN IF idx = FormPattern
         THEN /\ Len(got) = Len(static) + Len(fields)
              /\ SubSeq(got, 1, k) = SubSeq(static, 1, k)
              /\ SubSeq(got, k + Len(fields) + 1, Len(got)) = SubSeq(static, k + 1, Len(static))
              /\ \A j \in 1..Len(fields) :
                   /\ got[k + j].name = "Input"
                   /\ got[k + j].slot = "content"
                   /\ GetProp(got[k + j].props, "placeholder") = Str(Capitalize(fields[j]))
         ELSE got = static

\* the form pattern composed for an intent with two field words
C22_Witness ==
  /\ Returned("composeInterface")
  /\ MatchIndex(InitialIntentPatterns, request.input.intent) = FormPattern
  /\ Len(extractFormFields(request.input.intent)) = 2
  /\ Len(result.value.components) = Len(InitialIntentPatterns[FormPattern].components) + 2

\* a pattern other than the form pattern composed for an intent with a field word
C22_WitnessStatic ==
  /\ Returned("composeInterface")
  /\ Matches(request.input.intent)
  /\ MatchIndex(InitialIntentPatterns, request.input.intent) # FormPattern
  /\ extractFormFields(request.input.intent) # <<>>

\* the six kinds in declaration order, each with its trigger words
FieldKinds == <<"email", "password", "text", "tel", "textarea", "date">>

Triggers ==
  [kind \in Range(FieldKinds) |->
     CASE kind = "email" -> {"email"}
       [] kind = "password" -> {"password"}
       [] kind = "text" -> {"name"}
       [] kind = "tel" -> {"phone"}
       [] kind = "textarea" -> {"message", "comment"}
       [] kind = "date" -> {"date"}]

Triggered(kind, intent) == \E w \in Triggers[kind] : Includes(ToLowerCase(intent), w)

PositionOfKind(kind) == CHOOSE i \in 1..Len(FieldKinds) : FieldKinds[i] = kind

\* C23: extractFormFields returns exactly the kinds whose trigger occurs
\* case-insensitively in the intent, each once, in the order email, password,
\* text, tel, textarea, date, whatever the order of the words in the intent.
C23_FieldOrder ==
  Done("extractFormFields") =>
    LET fields == result.value
        intent == request.input.intent
    IN /\ \A kind \in Range(FieldKinds) : kind \in Range(fields) <=> Triggered(kind, intent)
       /\ Range(fields) \subseteq Range(FieldKinds)
       /\ Cardinality(Range(fields)) = Len(fields)
       /\ \A i, j \in 1..Len(fields) :
            i < j => PositionOfKind(fields[i]) < PositionOfKind(fields[j])

\* an intent that names the date before the password, in upper case, gave
\* password before date
C23_Witness ==
  /\ Done("extractFormFields")
  /\ request.input.intent = "date Password"
  /\ result.value = <<"password", "date">>

\* the issues can be assigned to components of the same name at strictly
\* increasing positions: issue i onwards to component j onwards, each issue
\* taking the earliest component that carries its name
RECURSIVE Embeds(_, _, _, _)
Embeds(issues, components, i, j) ==
  IF i > Len(issues) THEN TRUE
  ELSE IF j > Len(components) THEN FALSE
  ELSE IF issues[i].component = components[j].name
    THEN Embeds(issues, components, i + 1, j + 1)
  ELSE Embeds(issues, components, i, j + 1)

\* the issues one component gives rise to
IssuesOf(component) == validateAccessibility([components |-> <<component>>]).value.issues

\* C24: the issues are an order-preserving image of the evaluated components:
\* a strictly increasing map sends every issue to a component of the name in
\* its component field, no component gives more than one issue, and there are
\* at most as many issues as components.
C24_IssuesFollowComponents ==
  Returned("validateAccessibility") =>
    LET issues == result.value.issues
    IN /\ Embeds(issues, Validated, 1, 1)
       /\ \A i \in 1..Len(Validated) : Len(IssuesOf(Validated[i])) <= 1
       /\ Len(issues) <= Len(Validated)
       /\ issues = SelectSeq([i \in 1..Len(Validated) |->
                                IF IssuesOf(Validated[i]) = <<>> THEN Null
                                ELSE IssuesOf(Validated[i])[1]],
                             LAMBDA x : x # Null)

\* issues of two different components, with a component without an issue
\* between or around them
C24_Witness ==
  /\ Returned("validateAccessibility")
  /\ Len(result.value.issues) >= 2
  /\ Len(result.value.issues) < Len(Validated)
  /\ result.value.issues[1].component # result.value.issues[2].component

\* C25: for each layout pattern and any options the tokens returned by
\* getLayoutPattern are collectTokens of the returned component list.
C25_TokensAreCollected ==
  Returned("getLayoutPattern") =>
    /\ ~collectTokens(result.value.components).threw
    /\ result.value.tokens = collectTokens(result.value.components).value

\* the limit in force for the completed search
LimitInForce == IF Has(request.input, "limit") THEN request.input.limit ELSE 10

\* number of terms of the query found in the searchable text of an entry
TermsFound(spec) ==
  LET terms == QueryTerms(request.input.query)
  IN Cardinality({t \in 1..Len(terms) : Includes(Searchable(spec), terms[t])})

\* the entries in which at least one term of the query is found
PositiveSpecs == {i \in 1..Len(componentSpecs) : TermsFound(componentSpecs[i]) > 0}

SpecNamed(name) == CHOOSE i \in 1..Len(componentSpecs) : componentSpecs[i].key = name

Smaller(a, b) == IF a < b THEN a ELSE b

C26_WitnessBlank ==
  /\ Returned("searchComponents")
  /\ request.input.query # ""
  /\ IsBlank(request.input.query)
  /\ result.value.count = 0

\* the audit of the component list the completed composeInterface returned
ComposedAudit == validateAccessibility([components |-> result.value.components]).value

\* positions of the Inputs in the composed component list
ComposedInputs ==
  {i \in 1..Len(result.value.components) : result.value.components[i].name = "Input"}

\* C27: every Input composeInterface produces has no aria-label,
\* aria-labelledby or id, so the audit of the composed list raises exactly one
\* input-needs-label error per Input (and no other issue for an Input) and is
\* not valid whenever the list holds an Input; for the login pattern this is
\* exactly two input-needs-label errors.
C27_ComposedInputsUnlabelled ==
  (Returned("composeInterface") /\ Matches(request.input.intent)) =>
    LET components == result.value.components
        issues == ComposedAudit.issues
        unlabelled == {i \in 1..Len(issues) : issues[i].rule = "input-needs-label"}
    IN /\ \A i \in ComposedInputs :
            /\ ~HasProp(components[i].props, "aria-label")
            /\ ~HasProp(components[i].props, "aria-labelledby")
            /\ ~HasProp(components[i].props, "id")
            /\ Len(IssuesOf(components[i])) = 1
            /\ IssuesOf(components[i])[1].rule = "input-needs-label"
            /\ IssuesOf(components[i])[1].severity = "error"
       /\ Cardinality(unlabelled) = Cardinality(ComposedInputs)
       /\ \A k \in unlabelled : issues[k].severity = "error" /\ issues[k].component = "Input"
       /\ Cardinality({k \in 1..Len(issues) : issues[k].component = "Input"})
            = Cardinality(ComposedInputs)
       /\ ComposedInputs # {} => ~ComposedAudit.valid
       /\ MatchIndex(InitialIntentPatterns, request.input.intent) = 1 =>
            Cardinality(unlabelled) = 2

\* the form pattern composed with two dynamic fields: two errors, not valid
C27_Witness ==
  /\ Returned("composeInterface")
  /\ MatchIndex(InitialIntentPatterns, request.input.intent) = FormPattern
  /\ Cardinality(ComposedInputs) = 2
  /\ Cardinality({k \in 1..Len(ComposedAudit.issues) :
                    ComposedAudit.issues[k].rule = "input-needs-label"}) = 2
  /\ ~ComposedAudit.valid

\* 'login form' composed: exactly two input-needs-label errors
C27_WitnessLogin ==
  /\ Returned("composeInterface")
  /\ request.input.intent = "login form"
  /\ Cardinality({k \in 1..Len(ComposedAudit.issues) :
                    ComposedAudit.issues[k].rule = "input-needs-label"}) = 2

\* the input of the completed validateAccessibility without its context
WithoutContext ==
  [k \in DOMAIN request.input \ {"context"} |-> request.input[k]]

OutcomeInContext(context) ==
  LET out == composeInterface(InitialIntentPatterns,
                              [intent |-> request.input.intent, context |-> context])
  IN IF out.threw THEN [threw |-> TRUE, error |-> out.error]
     ELSE [threw |-> FALSE, value |-> out.value]

Followed(suggestion, context) ==
  composeInterface(intentPatterns, [intent |-> suggestion, context |-> context])

\* C30: every suggestion of the no-match payload is a matching intent: handed
\* back to composeInterface with any context it gives a composed result with
\* components and without suggestions, so that following a suggestion never
\* ends in another no-match payload.
C30_SuggestionsMatch ==
  /\ (Returned("composeInterface") /\ Has(result.value, "suggestions")) =>
       \A i \in 1..Len(result.value.suggestions), context \in Contexts :
         LET next == Followed(result.value.suggestions[i], context)
         IN /\ ~next.threw
            /\ next.value.components # <<>>
            /\ ~Has(next.value, "suggestions")
  /\ (Done("composeInterface") /\ request.input.intent \in Range(NoMatchPayload.suggestions)) =>
       /\ ~result.threw
       /\ result.value.components # <<>>
       /\ ~Has(result.value, "suggestions")

\* a no-match payload whose suggestions were all followed to a composition
C30_Witness ==
  /\ Returned("composeInterface")
  /\ Has(result.value, "suggestions")
  /\ Len(result.value.suggestions) = 5
  /\ \A i \in 1..5 :
       Followed(result.value.suggestions[i], request.input.context).value.components # <<>>

\* a call whose intent is the suggestion 'settings page' was composed
C30_WitnessFollowed ==
  /\ Returned("composeInterface")
  /\ request.input.intent = "settings page"
  /\ result.value.components # <<>>

=============================================================================
